---------------------------- MODULE Spec2Model ----------------------------
(***************************************************************************)
(* Model of the schema-less protobuf decoder of dji-python-api:            *)
(*   src/src/infrastructure/services/protobuf_decoder.py  (ProtobufDecoder)*)
(*   src/src/domain/entities/flight_data.py               (FlightData)     *)
(*   src/analyze_flight_full.py                    (parse_protobuf_full)   *)
(*                                                                         *)
(* A buffer is a sequence of bytes 0..255; Python position p is element    *)
(* p+1 of the sequence.  Python integers are unbounded, so an integer read *)
(* from a varint is kept as its base-128 digits, least significant first,  *)
(* without high zero digits (<<>> is 0, <<44, 2>> is 300).                 *)
(***************************************************************************)
EXTENDS Integers, Sequences, FiniteSets, TLC

VARIABLES
    intact,      \* the buffer before it was cut short (data itself if it was not)
    data,        \* the buffer handed to decode / parse_protobuf_full
    stack,       \* activation records of parse_recursive, innermost last
    all_values,  \* ProtobufDecoder: <<depth, kind, field>> -> list of values
    pc,          \* position of the call: "extract", "assemble", "done", ...
    flight,      \* the FlightData built by decode, NoFlight before
    last,        \* the branch the latest loop iteration took (trace only)
    collected,   \* the dict of lists parse_protobuf_full fills
    geojson,     \* the calls of to_geojson on the FlightData, with their outcomes
    calls,       \* the calls of decode on one ProtobufDecoder that run together
    running,     \* PlaywrightThread._running
    thread,      \* PlaywrightThread._thread: None or the worker it refers to
    task_queue,  \* PlaywrightThread._task_queue, oldest first
    lock,        \* PlaywrightThread._lock: None or the thread that holds it
    playwright,  \* PlaywrightThread._playwright: None or the thread that set it
    workers,     \* the threads created to run _worker, by number
    threads,     \* the threads that call start, stop and execute
    trace        \* what was enqueued and what was executed, in order (trace only)

thread_vars == <<running, thread, task_queue, lock, playwright, workers, threads,
                 trace>>

decoder_vars == <<intact, data, stack, all_values, pc, flight, last, collected>>

vars == <<intact, data, stack, all_values, pc, flight, last, collected, geojson,
          calls, running, thread, task_queue, lock, playwright, workers, threads,
          trace>>

\* What the decoder and the script do not touch.
beside_decoding == <<geojson, calls, thread_vars>>

\* No PlaywrightThread has been created.
NoThread ==
    /\ running = FALSE
    /\ thread = <<>>
    /\ task_queue = <<>>
    /\ lock = <<>>
    /\ playwright = <<>>
    /\ workers = <<>>
    /\ threads = <<>>
    /\ trace = <<>>

\* Nothing but the decoder or the script has run.
Untouched == geojson = <<>> /\ calls = <<>> /\ NoThread

-----------------------------------------------------------------------------
(* Unbounded naturals as base-128 digit lists.                             *)

RECURSIVE Normalize(_)
\* Drop the high-order zero digits.
Normalize(ds) ==
    IF ds = <<>> THEN <<>>
    ELSE IF ds[Len(ds)] = 0 THEN Normalize(SubSeq(ds, 1, Len(ds) - 1))
    ELSE ds

RECURSIVE Big(_)
\* The digit list of a natural number.
Big(n) == IF n = 0 THEN <<>> ELSE <<n % 128>> \o Big(n \div 128)

RECURSIVE BigLtFrom(_, _, _)
\* a < b for two digit lists of the same length, compared from digit i down.
BigLtFrom(a, b, i) ==
    IF i = 0 THEN FALSE
    ELSE IF a[i] # b[i] THEN a[i] < b[i]
    ELSE BigLtFrom(a, b, i - 1)

\* a < b on normalized digit lists.
BigLt(a, b) ==
    IF Len(a) # Len(b) THEN Len(a) < Len(b) ELSE BigLtFrom(a, b, Len(a))

\* tag >> 3 on a digit list.
BigShr3(ds) ==
    Normalize([i \in 1..Len(ds) |->
        (ds[i] \div 8) + (IF i < Len(ds) THEN (ds[i + 1] % 8) * 16 ELSE 0)])

\* tag & 0x07 on a digit list.
BigAnd7(ds) == IF ds = <<>> THEN 0 ELSE ds[1] % 8

-----------------------------------------------------------------------------
(* _decode_varint                                                          *)

RECURSIVE varint_loop_big_endian(_, _, _)
\* The loop with the groups of 7 bits taken most significant first.
varint_loop_big_endian(buf, pos, result) ==
    IF pos < Len(buf)
    THEN LET byte == buf[pos + 1]
             acc  == <<byte % 128>> \o result
         IN  IF byte < 128 THEN [val |-> acc, pos |-> pos + 1]
             ELSE varint_loop_big_endian(buf, pos + 1, acc)
    ELSE [val |-> result, pos |-> pos]

RECURSIVE varint_loop(_, _, _)
\* while pos < len(data): result |= (byte & 0x7F) << shift; pos += 1;
\* stop after a byte without 0x80.  shift is 7 * Len(result), so the OR
\* writes the next digit.
varint_loop(buf, pos, result) ==
    IF pos < Len(buf)
    THEN LET byte == buf[pos + 1]
             acc  == Append(result, byte % 128)
         IN  IF byte < 128 THEN [val |-> acc, pos |-> pos + 1]
             ELSE varint_loop(buf, pos + 1, acc)
    ELSE [val |-> result, pos |-> pos]

\* _decode_varint(data, pos) -> (result, pos)
decode_varint(buf, pos) ==
    LET r == varint_loop(buf, pos, <<>>)
    IN  [val |-> Normalize(r.val), pos |-> r.pos]

-----------------------------------------------------------------------------
(* struct.unpack('<d', ...) and struct.unpack('<f', ...): IEEE 754.  A     *)
(* float is [sign, exp, hi, mid, lo]: the sign bit, the 11 exponent bits   *)
(* and the 52 fraction bits of a double, the fraction cut in 20+16+16      *)
(* bits.  The Python float read from 4 bytes is the double equal to that   *)
(* binary32 value.                                                         *)

RECURSIVE Pow2(_)
Pow2(n) == IF n = 0 THEN 1 ELSE 2 * Pow2(n - 1)

RECURSIVE Log2(_)
\* floor(log2(n)) for n >= 1.
Log2(n) == IF n < 2 THEN 0 ELSE 1 + Log2(n \div 2)

Dbl(sign, exp, hi, mid, lo) ==
    [sign |-> sign, exp |-> exp, hi |-> hi, mid |-> mid, lo |-> lo]

\* The outcome of a Python expression: a value, or an exception raised.
Ok(v) == [ok |-> TRUE, val |-> v]
Raise(v) == [ok |-> FALSE, val |-> v]

\* data[a:b] for 0 <= a <= b: a slice stops at the end of the buffer.
py_slice(buf, a, b) ==
    SubSeq(buf, a + 1, IF b < Len(buf) THEN b ELSE Len(buf))

\* struct.unpack('<d', b)[0], little-endian; struct.error unless b has 8 bytes.
unpack_d(b) ==
    IF Len(b) # 8 THEN Raise(Dbl(0, 0, 0, 0, 0))
    ELSE Ok(Dbl(b[8] \div 128,
                (b[8] % 128) * 16 + b[7] \div 16,
                (b[7] % 16) * 65536 + b[6] * 256 + b[5],
                b[4] * 256 + b[3],
                b[2] * 256 + b[1]))

\* The double equal to the binary32 value with exponent bits e and 23
\* fraction bits m.
FromBinary32(sign, e, m) ==
    LET frac(f) == Dbl(sign, 0, f \div 8, (f % 8) * 8192, 0)
    IN  IF e = 255 THEN [frac(m) EXCEPT !.exp = 2047]
        ELSE IF e > 0 THEN [frac(m) EXCEPT !.exp = e + 896]
        ELSE IF m = 0 THEN frac(0)
        ELSE LET k == Log2(m)   \* subnormal: m * 2^-149, normal as a double
             IN  [frac((m - Pow2(k)) * Pow2(23 - k)) EXCEPT !.exp = k + 874]

\* struct.unpack('<f', b)[0], little-endian; struct.error unless b has 4 bytes.
unpack_f(b) ==
    IF Len(b) # 4 THEN Raise(Dbl(0, 0, 0, 0, 0))
    ELSE Ok(FromBinary32(b[4] \div 128,
                         (b[4] % 128) * 2 + b[3] \div 128,
                         (b[3] % 128) * 65536 + b[2] * 256 + b[1]))

IsNaN(v) == v.exp = 2047 /\ (v.hi # 0 \/ v.mid # 0 \/ v.lo # 0)

IsZero(v) == v.exp = 0 /\ v.hi = 0 /\ v.mid = 0 /\ v.lo = 0

\* |a| < |b| for two floats that are not NaN.
MagLt(a, b) ==
    IF a.exp # b.exp THEN a.exp < b.exp
    ELSE IF a.hi # b.hi THEN a.hi < b.hi
    ELSE IF a.mid # b.mid THEN a.mid < b.mid
    ELSE a.lo < b.lo

\* Python's a < b on floats: false when either is NaN, -0.0 equals 0.0.
FloatLt(a, b) ==
    /\ ~IsNaN(a)
    /\ ~IsNaN(b)
    /\ IF a.sign = 0 /\ b.sign = 0 THEN MagLt(a, b)
       ELSE IF a.sign = 1 /\ b.sign = 1 THEN MagLt(b, a)
       ELSE IF a.sign = 1 THEN ~(IsZero(a) /\ IsZero(b))
       ELSE FALSE

Neg(v) == [v EXCEPT !.sign = 1 - v.sign]

\* Python's a <= b on floats.
FloatLe(a, b) ==
    FloatLt(a, b) \/ (~IsNaN(a) /\ ~IsNaN(b) /\ ~FloatLt(b, a))

\* Arithmetic.  It is exact on the floats that are a whole number of
\* sixteenths below 2^16, since every sum, product and root taken here of
\* such floats that is again a whole number of sixteenths is a float; the
\* model computes those and keeps any other result as the term it is.
IsFloat(x) == DOMAIN x = {"sign", "exp", "hi", "mid", "lo"}

IsSixteenths(x) ==
    /\ IsFloat(x)
    /\ x.mid = 0
    /\ x.lo = 0
    /\ \/ x.exp = 0 /\ x.hi = 0
       \/ /\ x.exp \in 1019..1038
          /\ (Pow2(20) + x.hi) % Pow2(1039 - x.exp) = 0

\* The number of sixteenths a float is, and the float of n sixteenths.
ToSixteenths(x) ==
    IF x.exp = 0 THEN 0
    ELSE (1 - 2 * x.sign) * ((Pow2(20) + x.hi) \div Pow2(1039 - x.exp))

FromSixteenths(n) ==
    IF n = 0 THEN Dbl(0, 0, 0, 0, 0)
    ELSE LET m == IF n < 0 THEN 0 - n ELSE n
             k == Log2(m)
         IN  Dbl(IF n < 0 THEN 1 ELSE 0, 1019 + k, (m - Pow2(k)) * Pow2(20 - k), 0, 0)

\* a + b; the sum of two zeros is -0.0 only when both are.
float_add(a, b) ==
    IF IsSixteenths(a) /\ IsSixteenths(b)
    THEN IF ToSixteenths(a) = 0 /\ ToSixteenths(b) = 0
         THEN (IF a.sign = 1 /\ b.sign = 1 THEN a ELSE Dbl(0, 0, 0, 0, 0))
         ELSE FromSixteenths(ToSixteenths(a) + ToSixteenths(b))
    ELSE [add |-> <<a, b>>]

\* a / 2: one less in the exponent of a normal float whose half is normal;
\* zero, infinity and NaN are their own halves.
float_half(a) ==
    IF IsFloat(a) /\ a.exp \in 2..2046 THEN [a EXCEPT !.exp = @ - 1]
    ELSE IF IsFloat(a) /\ (a.exp = 2047 \/ (a.exp = 0 /\ IsSixteenths(a))) THEN a
    ELSE [half |-> a]

\* a ** 2
float_square(a) ==
    IF /\ IsSixteenths(a)
       /\ (ToSixteenths(a) * ToSixteenths(a)) % 16 = 0
       /\ ToSixteenths(a) * ToSixteenths(a) < Pow2(24)
    THEN FromSixteenths((ToSixteenths(a) * ToSixteenths(a)) \div 16)
    ELSE [square |-> a]

RECURSIVE isqrt_between(_, _, _)
\* The greatest r in lo..hi with r * r <= n, for lo * lo <= n.
isqrt_between(n, lo, hi) ==
    IF lo = hi THEN lo
    ELSE LET mid == (lo + hi + 1) \div 2
         IN  IF mid * mid <= n THEN isqrt_between(n, mid, hi)
             ELSE isqrt_between(n, lo, mid - 1)

\* a ** 0.5: the root of a square is that root exactly.
float_sqrt(a) ==
    IF IsSixteenths(a) /\ a.sign = 0
    THEN LET n == 16 * ToSixteenths(a)
             r == isqrt_between(n, 0, 4096)
         IN  IF r * r = n THEN FromSixteenths(r) ELSE [sqrt |-> a]
    ELSE [sqrt |-> a]

\* The float literal 1e10 = 0x4202A05F20000000.
F_1e10 == Dbl(0, 1056, 172127, 8192, 0)

\* The float literal 1e15 as an integer: val < 1e15 compares an int with it.
I_1e15 == <<0, 0, 26, 38, 106, 47, 99, 1>>

-----------------------------------------------------------------------------
(* ProtobufDecoder._extract_all_values and its parse_recursive.            *)

\* def _extract_all_values(self, data, max_depth: int = 6)
max_depth == 6

RECURSIVE ToNat(_)
\* The value of a digit list that fits a machine integer (at most 4 digits).
ToNat(ds) == IF ds = <<>> THEN 0 ELSE ds[1] + 128 * ToNat(Tail(ds))

\* pos + length <= len(data), length an unbounded integer.
SpanInBounds(length, pos, buf) ==
    Len(length) <= 4 /\ pos + ToNat(length) <= Len(buf)

\* A record that forgets the depth of its call.
Frame_at_root(buf, depth) == [buf |-> buf, pos |-> 0, depth |-> 0, length |-> 0]

\* The activation record of one parse_recursive call: its buffer, its
\* cursor, its depth, and the length of the span whose nested call is
\* running (0 when none is).
Frame(buf, depth) == [buf |-> buf, pos |-> 0, depth |-> depth, length |-> 0]

\* An insert at the front of the list.
bucket_prepend(vals, depth, kind, field, val) ==
    LET key == <<depth, kind, field>>
    IN  IF key \in DOMAIN vals
        THEN [vals EXCEPT ![key] = <<val>> \o @]
        ELSE vals @@ (key :> <<val>>)

\* all_values[depth][key].append(val) on the nested defaultdict.
bucket_append(vals, depth, kind, field, val) ==
    LET key == <<depth, kind, field>>
    IN  IF key \in DOMAIN vals
        THEN [vals EXCEPT ![key] = Append(@, val)]
        ELSE vals @@ (key :> <<val>>)

\* The call returns: its record is dropped and the caller runs
\* "pos += length" after its parse_recursive(...) statement.
return_to_caller(stk) ==
    LET rest == SubSeq(stk, 1, Len(stk) - 1)
    IN  IF rest = <<>> THEN rest
        ELSE [rest EXCEPT ![Len(rest)] =
                 [@ EXCEPT !.pos = @ + rest[Len(rest)].length, !.length = 0]]

\* val < 1e15
varint_guard(val) == BigLt(val, I_1e15)

\* The test with both ends included: -1e10 <= val <= 1e10.
float_guard_inclusive(val) == FloatLe(Neg(F_1e10), val) /\ FloatLe(val, F_1e10)

\* -1e10 < val < 1e10
float_guard(val) == FloatLt(Neg(F_1e10), val) /\ FloatLt(val, F_1e10)

\* if length and pos + length <= len(data)
span_accepted(length, pos, buf) ==
    length # <<>> /\ SpanInBounds(length, pos, buf)

\* The innermost call, and the locals of its loop iteration:
\* tag, new_pos = self._decode_varint(data, pos)
innermost(stk) == stk[Len(stk)]
read_tag(f) == decode_varint(f.buf, f.pos)
\* wire_type = tag & 0x07
wire_type(tag) == BigAnd7(tag)
\* field = tag >> 3
field_number(tag) == BigShr3(tag)

\* A break that would end every call at once.
leave_all(stk, vals) == [stack |-> <<>>, vals |-> vals]

\* break, the end of the loop, "return": the innermost call is left.
leave(stk, vals) == [stack |-> return_to_caller(stk), vals |-> vals]

\* A loop that goes on without moving its cursor.
continue_in_place(stk, vals, pos) == [stack |-> stk, vals |-> vals]

\* The loop of the innermost call goes on with the cursor at pos.
continue_at(stk, vals, pos) ==
    [stack |-> [stk EXCEPT ![Len(stk)].pos = pos], vals |-> vals]

\* wire_type == 0
varint_field(stk, vals) ==
    LET f == innermost(stk)
        tag == read_tag(f)
        v == decode_varint(f.buf, tag.pos)
    IN  continue_at(stk,
            IF varint_guard(v.val)
            THEN bucket_append(vals, f.depth, "int", field_number(tag.val), v.val)
            ELSE vals,
            v.pos)

\* wire_type == 1; an exception of struct.unpack is caught: break.
fixed64_field(stk, vals) ==
    LET f == innermost(stk)
        tag == read_tag(f)
        pos == tag.pos
        fits == pos + 8 <= Len(f.buf)
        r == unpack_d(py_slice(f.buf, pos, pos + 8))
    IN  IF fits /\ ~r.ok THEN leave(stk, vals)
        ELSE continue_at(stk,
                 IF fits /\ float_guard(r.val)
                 THEN bucket_append(vals, f.depth, "dbl", field_number(tag.val), r.val)
                 ELSE vals,
                 pos + 8)

\* A length-delimited field whose else branch would give up the whole
\* collection and what it holds.
length_delimited_field_giving_up(stk, vals) ==
    LET f == innermost(stk)
        tag == read_tag(f)
        length == decode_varint(f.buf, tag.pos)
        pos == length.pos
    IN  IF span_accepted(length.val, pos, f.buf)
        THEN LET n == ToNat(length.val)
             IN  [stack |-> Append(
                      [stk EXCEPT ![Len(stk)] = [@ EXCEPT !.pos = pos, !.length = n]],
                      Frame(py_slice(f.buf, pos, pos + n), f.depth + 1)),
                  vals |-> vals]
        ELSE [stack |-> <<>>, vals |-> <<>>]

\* wire_type == 2: parse_recursive(data[pos:pos+length], depth + 1) starts
\* and "pos += length" runs when it returns; else: break.
length_delimited_field(stk, vals) ==
    LET f == innermost(stk)
        tag == read_tag(f)
        length == decode_varint(f.buf, tag.pos)
        pos == length.pos
    IN  IF span_accepted(length.val, pos, f.buf)
        THEN LET n == ToNat(length.val)
             IN  [stack |-> Append(
                      [stk EXCEPT ![Len(stk)] = [@ EXCEPT !.pos = pos, !.length = n]],
                      Frame(py_slice(f.buf, pos, pos + n), f.depth + 1)),
                  vals |-> vals]
        ELSE leave(stk, vals)

\* wire_type == 5; an exception of struct.unpack is caught: break.
fixed32_field(stk, vals) ==
    LET f == innermost(stk)
        tag == read_tag(f)
        pos == tag.pos
        fits == pos + 4 <= Len(f.buf)
        r == unpack_f(py_slice(f.buf, pos, pos + 4))
    IN  IF fits /\ ~r.ok THEN leave(stk, vals)
        ELSE continue_at(stk,
                 IF fits /\ float_guard(r.val)
                 THEN bucket_append(vals, f.depth, "flt", field_number(tag.val), r.val)
                 ELSE vals,
                 pos + 4)

\* A call that goes on at any depth.
depth_unbounded(depth) == FALSE

\* if depth > max_depth
depth_exceeded(depth) == depth > max_depth

\* Which way the innermost call goes next: the depth test on entry, the
\* loop test, the test after the tag, then the wire type.
branch(f) ==
    IF depth_exceeded(f.depth) THEN "depth"
    ELSE IF ~(f.pos < Len(f.buf)) THEN "end"
    ELSE LET tag == read_tag(f)
             wt == wire_type(tag.val)
         IN  IF tag.pos >= Len(f.buf) THEN "tag_at_end"
             ELSE IF wt = 0 THEN "varint"
             ELSE IF wt = 1 THEN "fixed64"
             ELSE IF wt = 2
                  THEN LET length == decode_varint(f.buf, tag.pos)
                       IN  IF span_accepted(length.val, length.pos, f.buf)
                           THEN "span" ELSE "span_break"
             ELSE IF wt = 5 THEN "fixed32"
             ELSE "wire_type"

\* One step of parse_recursive in the innermost call.
parse_step(stk, vals) ==
    LET b == branch(innermost(stk))
    IN  IF b = "varint" THEN varint_field(stk, vals)
        ELSE IF b = "fixed64" THEN fixed64_field(stk, vals)
        ELSE IF b \in {"span", "span_break"} THEN length_delimited_field(stk, vals)
        ELSE IF b = "fixed32" THEN fixed32_field(stk, vals)
        ELSE leave(stk, vals)

RECURSIVE parse_all(_, _)
\* The calls run to their end.
parse_all(stk, vals) ==
    IF stk = <<>> THEN vals
    ELSE LET r == parse_step(stk, vals) IN parse_all(r.stack, r.vals)

\* _extract_all_values(data): parse_recursive(data) on an empty all_values.
extract_all_values(buf) == parse_all(<<Frame(buf, 0)>>, <<>>)

Top == innermost(stack)

\* What the trace variable keeps of an iteration: the branch, the depth and
\* cursor it started at, and the tag it read with the position after it.
Note(op) ==
    [op |-> op, depth |-> Top.depth, at |-> Top.pos,
     tag |-> read_tag(Top).val, new_pos |-> read_tag(Top).pos]

\* The innermost call is about to take branch b.
Takes(b) == pc = "extract" /\ stack # <<>> /\ branch(Top) = b

\* The innermost call takes its step; decode goes on to its own statements
\* once _extract_all_values has returned.
Advance ==
    LET r == parse_step(stack, all_values)
    IN  /\ stack' = r.stack
        /\ all_values' = r.vals
        /\ pc' = IF r.stack = <<>> THEN "assemble" ELSE pc
        /\ last' = Note(branch(Top))
        /\ UNCHANGED <<intact, data, flight, collected>>
        /\ UNCHANGED beside_decoding

\* if depth > max_depth: return
DepthExceeded ==
    /\ Takes("depth")
    /\ Advance

\* while pos < len(data) fails
LoopEnd ==
    /\ Takes("end")
    /\ Advance

\* if new_pos >= len(data): break
TagAtEnd ==
    /\ Takes("tag_at_end")
    /\ Advance

\* wire_type == 0
VarintField ==
    /\ Takes("varint")
    /\ Advance

\* wire_type == 1
Fixed64Field ==
    /\ Takes("fixed64")
    /\ Advance

\* wire_type == 2 and "if length and pos + length <= len(data)" holds
LengthDelimitedField ==
    /\ Takes("span")
    /\ Advance

\* wire_type == 2, else: break
LengthDelimitedBreak ==
    /\ Takes("span_break")
    /\ Advance

\* wire_type == 5
Fixed32Field ==
    /\ Takes("fixed32")
    /\ Advance

\* else: break
UnsupportedWireType ==
    /\ Takes("wire_type")
    /\ Advance

-----------------------------------------------------------------------------
(* ProtobufDecoder.decode after _extract_all_values, and FlightData.        *)

\* Optional[...]: None is <<>>, a value v is <<v>>.
None == <<>>
Some(v) == <<v>>

\* Settings: LAT_MIN -35, LAT_MAX -5, LON_MIN -75, LON_MAX -35 (defaults).
lat_min == Dbl(1, 1028, 98304, 0, 0)
lat_max == Dbl(1, 1025, 262144, 0, 0)
lon_min == Dbl(1, 1029, 180224, 0, 0)
lon_max == Dbl(1, 1028, 98304, 0, 0)

\* The literals 180, 30, 50 and 0 of decode.
F_180 == Dbl(0, 1030, 425984, 0, 0)
F_30 == Dbl(0, 1027, 917504, 0, 0)
F_50 == Dbl(0, 1028, 589824, 0, 0)
F_0 == Dbl(0, 0, 0, 0, 0)

\* round(x, 2): a whole number of quarters has at most two decimals and is
\* its own rounding; any other value is kept as the term it is.
round2(x) ==
    IF IsSixteenths(x) /\ ToSixteenths(x) % 4 = 0 THEN x
    ELSE [round |-> x, ndigits |-> 2]

\* A read that also takes what the next depth holds under the key.
bucket_with_below(vals, depth, kind, n) ==
    LET at(d) == IF <<d, kind, Big(n)>> \in DOMAIN vals
                 THEN vals[<<d, kind, Big(n)>>] ELSE <<>>
    IN  at(depth) \o at(depth + 1)

\* all_values[depth][key] on the nested defaultdict: a missing key reads [].
bucket(vals, depth, kind, n) ==
    LET key == <<depth, kind, Big(n)>>
    IN  IF key \in DOMAIN vals THEN vals[key] ELSE <<>>

\* A heading carried forward from the last entry when the list is short.
heading_carried(raw, i) ==
    LET k == IF i < Len(raw) THEN i ELSE Len(raw) - 1
    IN  IF k >= 0 /\ FloatLe(Neg(F_180), raw[k + 1]) /\ FloatLe(raw[k + 1], F_180)
        THEN Some(round2(raw[k + 1])) ELSE None

\* raw_headings[i] etc. with its range test; lists are 0-based.
heading_at(raw, i) ==
    IF i < Len(raw) /\ FloatLe(Neg(F_180), raw[i + 1]) /\ FloatLe(raw[i + 1], F_180)
    THEN Some(round2(raw[i + 1])) ELSE None

velocity_at(raw, i) ==
    IF i < Len(raw) /\ FloatLt(Neg(F_30), raw[i + 1]) /\ FloatLt(raw[i + 1], F_30)
    THEN Some(round2(raw[i + 1])) ELSE None

spray_at(raw, i) ==
    IF i < Len(raw) /\ FloatLt(F_0, raw[i + 1]) /\ FloatLt(raw[i + 1], F_50)
    THEN Some(round2(raw[i + 1])) ELSE None

\* The test with the limits of the box included.
in_bounding_box_closed(lat, lon) ==
    /\ FloatLe(lat_min, lat) /\ FloatLe(lat, lat_max)
    /\ FloatLe(lon_min, lon) /\ FloatLe(lon, lon_max)

\* if lat_min < lat < lat_max and lon_min < lon < lon_max
in_bounding_box(lat, lon) ==
    /\ FloatLt(lat_min, lat) /\ FloatLt(lat, lat_max)
    /\ FloatLt(lon_min, lon) /\ FloatLt(lon, lon_max)

\* A point that keeps the raw index as its index.
GpsPoint_raw_index(index, vals, i) ==
    [index |-> i,
     latitude |-> bucket(vals, 3, "dbl", 1)[i + 1],
     longitude |-> bucket(vals, 3, "dbl", 2)[i + 1],
     heading |-> heading_at(bucket(vals, 3, "dbl", 3), i),
     velocity_x |-> velocity_at(bucket(vals, 3, "flt", 1), i),
     velocity_y |-> velocity_at(bucket(vals, 3, "flt", 2), i),
     spray_rate |-> spray_at(bucket(vals, 3, "flt", 3), i)]

GpsPoint(index, vals, i) ==
    [index |-> index,
     latitude |-> bucket(vals, 3, "dbl", 1)[i + 1],
     longitude |-> bucket(vals, 3, "dbl", 2)[i + 1],
     heading |-> heading_at(bucket(vals, 3, "dbl", 3), i),
     velocity_x |-> velocity_at(bucket(vals, 3, "flt", 1), i),
     velocity_y |-> velocity_at(bucket(vals, 3, "flt", 2), i),
     spray_rate |-> spray_at(bucket(vals, 3, "flt", 3), i)]

Min2(a, b) == IF a < b THEN a ELSE b

RECURSIVE build_points_distinct(_, _, _, _)
\* The loop with coordinates already seen passed over.
build_points_distinct(vals, i, num_raw, points) ==
    IF i >= num_raw THEN points
    ELSE LET lat == bucket(vals, 3, "dbl", 1)[i + 1]
             lon == bucket(vals, 3, "dbl", 2)[i + 1]
             seen == \E j \in 1..Len(points) :
                        points[j].latitude = lat /\ points[j].longitude = lon
         IN  build_points_distinct(vals, i + 1, num_raw,
                 IF in_bounding_box(lat, lon) /\ ~seen
                 THEN Append(points, GpsPoint(Len(points), vals, i))
                 ELSE points)

RECURSIVE build_points(_, _, _, _)
\* for i in range(num_raw): ... points.append(point); valid_index += 1
build_points(vals, i, num_raw, points) ==
    IF i >= num_raw THEN points
    ELSE LET lat == bucket(vals, 3, "dbl", 1)[i + 1]
             lon == bucket(vals, 3, "dbl", 2)[i + 1]
         IN  build_points(vals, i + 1, num_raw,
                 IF in_bounding_box(lat, lon)
                 THEN Append(points, GpsPoint(Len(points), vals, i))
                 ELSE points)

decode_points(vals) ==
    build_points(vals, 0,
        Min2(Len(bucket(vals, 3, "dbl", 1)), Len(bucket(vals, 3, "dbl", 2))),
        <<>>)

RECURSIVE py_min_from(_, _, _)
\* min(xs) keeps the first of the least elements.
py_min_from(xs, i, best) ==
    IF i > Len(xs) THEN best
    ELSE py_min_from(xs, i + 1, IF FloatLt(xs[i], best) THEN xs[i] ELSE best)

RECURSIVE py_max_from(_, _, _)
py_max_from(xs, i, best) ==
    IF i > Len(xs) THEN best
    ELSE py_max_from(xs, i + 1, IF FloatLt(best, xs[i]) THEN xs[i] ELSE best)

\* min(xs) / max(xs): ValueError on an empty list.
py_min(xs) == IF xs = <<>> THEN Raise(F_0) ELSE Ok(py_min_from(xs, 2, xs[1]))
py_max(xs) == IF xs = <<>> THEN Raise(F_0) ELSE Ok(py_max_from(xs, 2, xs[1]))

\* The sum of the two limits, not halved.
center_lat_unhalved(b) == float_add(b.lat_min, b.lat_max)

\* GpsBounds.center_lat and center_lon: (min + max) / 2.
center_lat(b) == float_half(float_add(b.lat_min, b.lat_max))

center_lon(b) == float_half(float_add(b.lon_min, b.lon_max))

\* calculate_bounds without "if not self.points: return None".
calculate_bounds_unguarded(points) ==
    LET lats == [i \in 1..Len(points) |-> points[i].latitude]
    IN  [ok |-> py_min(lats).ok, val |-> None]

\* FlightData.calculate_bounds: the value self.bounds holds afterwards.
calculate_bounds(points) ==
    IF points = <<>> THEN Ok(None)
    ELSE LET lats == [i \in 1..Len(points) |-> points[i].latitude]
             lons == [i \in 1..Len(points) |-> points[i].longitude]
             ok == py_min(lats).ok /\ py_max(lats).ok
                   /\ py_min(lons).ok /\ py_max(lons).ok
         IN  [ok |-> ok,
              val |-> Some([lat_min |-> py_min(lats).val,
                            lat_max |-> py_max(lats).val,
                            lon_min |-> py_min(lons).val,
                            lon_max |-> py_max(lons).val])]

\* GpsPoint.speed_ms: round((vx**2 + vy**2)**0.5, 2), or None.
speed_ms(p) ==
    IF p.velocity_x # None /\ p.velocity_y # None
    THEN Some(round2(float_sqrt(float_add(float_square(p.velocity_x[1]),
                                          float_square(p.velocity_y[1])))))
    ELSE None

RECURSIVE defined_values(_)
\* [x for x in xs if x is not None] on a list of optional values.
defined_values(xs) ==
    IF xs = <<>> THEN <<>>
    ELSE (IF Head(xs) = None THEN <<>> ELSE <<Head(xs)[1]>>)
         \o defined_values(Tail(xs))

\* round(sum(xs) / len(xs), 2), round(min(xs), 2), round(max(xs), 2): a
\* statistic of an empty list raises (ZeroDivisionError, ValueError).
statistic(op, xs) ==
    [ok |-> xs # <<>>, val |-> Some([op |-> op, of |-> xs, ndigits |-> 2])]

\* "<statistic> if xs else 0"
statistic_or_zero(op, xs) ==
    IF xs # <<>> THEN statistic(op, xs) ELSE Ok(Some(0))

\* "<statistic>" alone, without "if xs else None".
unguarded_statistic(op, xs) == statistic(op, xs)

\* "<statistic> if xs else None"
guarded_statistic(op, xs) ==
    IF xs # <<>> THEN statistic(op, xs) ELSE Ok(None)

\* FlightData.calculate_telemetry: the Telemetry it stores.
calculate_telemetry(points) ==
    LET headings == defined_values([i \in 1..Len(points) |-> points[i].heading])
        speeds == defined_values([i \in 1..Len(points) |-> speed_ms(points[i])])
        sprays == defined_values([i \in 1..Len(points) |-> points[i].spray_rate])
        f == [heading_avg |-> guarded_statistic("avg", headings),
              heading_min |-> guarded_statistic("min", headings),
              heading_max |-> guarded_statistic("max", headings),
              speed_avg_ms |-> guarded_statistic("avg", speeds),
              speed_max_ms |-> guarded_statistic("max", speeds),
              spray_rate_avg |-> guarded_statistic("avg", sprays),
              spray_rate_min |-> guarded_statistic("min", sprays),
              spray_rate_max |-> guarded_statistic("max", sprays)]
    IN  [ok |-> \A k \in DOMAIN f : f[k].ok,
         val |-> Some([k \in DOMAIN f |-> f[k].val])]

\* The record_id decode is given; it goes into the FlightData as it is.
record_id == "record_id"

\* decode from "raw_lats = ..." to "return flight_data": the FlightData, or
\* the exception of calculate_bounds or calculate_telemetry.
flight_data(vals) ==
    LET points == decode_points(vals)
        bounds == calculate_bounds(points)
        telemetry == calculate_telemetry(points)
    IN  [ok |-> bounds.ok /\ telemetry.ok,
         val |-> [record_id |-> record_id,
                  points |-> points,
                  telemetry |-> telemetry.val,
                  bounds |-> bounds.val]]

\* decode(binary_data, record_id) as a function of the buffer.
decode(buf) == flight_data(extract_all_values(buf))

\* decode after _extract_all_values has returned; an exception leaves it
\* with no value.
Assemble ==
    /\ pc = "assemble"
    /\ LET r == flight_data(all_values)
       IN  IF r.ok
           THEN pc' = "done" /\ flight' = Some(r.val)
           ELSE pc' = "raised" /\ flight' = None
    /\ last' = [last EXCEPT !.op = "assemble"]
    /\ UNCHANGED <<intact, data, stack, all_values, collected>>
    /\ UNCHANGED beside_decoding

-----------------------------------------------------------------------------
(* flight_data.py: FlightData.to_geojson, and the properties of Record it   *)
(* reads.  A dict is a function of its keys; the order of the keys is not   *)
(* modelled.                                                               *)

\* The first timestamp past 9999-12-31T23:59:59 UTC, 253402300800, as digits.
year_10000 == <<0, 3, 81, 127, 47, 7>>

\* datetime.fromtimestamp(ts) of a natural ts: the datetime, or ValueError
\* (OSError on some platforms) for a year past 9999.
fromtimestamp(ts) ==
    IF BigLt(ts, year_10000) THEN Ok([fromtimestamp |-> ts]) ELSE Raise("ValueError")

\* "if self.start_timestamp:" - None and 0 are false.
timestamp_set(ts) == ts # None /\ ts[1] # <<>>

\* Record.start_datetime and Record.end_datetime
start_datetime(record) ==
    IF timestamp_set(record.start_timestamp)
    THEN LET d == fromtimestamp(record.start_timestamp[1])
         IN  [ok |-> d.ok, val |-> Some(d.val)]
    ELSE Ok(None)

end_datetime(record) ==
    IF timestamp_set(record.end_timestamp)
    THEN LET d == fromtimestamp(record.end_timestamp[1])
         IN  [ok |-> d.ok, val |-> Some(d.val)]
    ELSE Ok(None)

\* "x.isoformat() if x else None" on the outcome of a datetime property.
isoformat(d) ==
    IF ~d.ok THEN d
    ELSE IF d.val = None THEN Ok(None)
    ELSE Ok(Some([isoformat |-> d.val[1]]))

\* Record.duration_seconds: end - start, kept as the term it is.
duration_seconds(record) ==
    IF timestamp_set(record.start_timestamp) /\ timestamp_set(record.end_timestamp)
    THEN Some([sub |-> <<record.end_timestamp[1], record.start_timestamp[1]>>])
    ELSE None

\* Record.duration_minutes: a duration of 0 seconds is false and gives None.
duration_minutes(record) ==
    LET seconds == duration_seconds(record)
    IN  IF seconds # None /\ seconds[1].sub[1] # seconds[1].sub[2]
        THEN Some([round |-> [div |-> <<seconds[1], 60>>], ndigits |-> 1])
        ELSE None

\* "round(x / by, 2) if x else None": None and 0.0 are false.
scaled(x, by) ==
    IF x # None /\ ~IsZero(x[1])
    THEN Some([round |-> [div |-> <<x[1], by>>], ndigits |-> 2])
    ELSE None

\* Record.work_area_ha and Record.spray_usage_liters
work_area_ha(record) == scaled(record.new_work_area, 10000)

spray_usage_liters(record) == scaled(record.spray_usage, 1000)

\* GpsPoint.to_dict
to_dict(p) ==
    [index |-> p.index,
     latitude |-> p.latitude,
     longitude |-> p.longitude,
     heading |-> p.heading,
     velocity_x |-> p.velocity_x,
     velocity_y |-> p.velocity_y,
     spray_rate |-> p.spray_rate,
     speed_ms |-> speed_ms(p)]

\* A coordinate pair with the latitude first.
coordinates_lat_lon(p) == <<p.latitude, p.longitude>>

\* [p.longitude, p.latitude]
coordinates(p) == <<p.longitude, p.latitude>>

\* The route: the LineString of all points.
route_feature(points) ==
    [type |-> "Feature",
     geometry |-> [type |-> "LineString",
                   coordinates |-> [i \in 1..Len(points) |-> coordinates(points[i])]],
     properties |-> [type |-> "flight_path", total_points |-> Len(points)]]

\* A Point feature for each point that has a heading.
point_features_with_heading(points) ==
    LET headed == SelectSeq(points, LAMBDA p : p.heading # None)
    IN  [i \in 1..Len(headed) |->
            [type |-> "Feature",
             geometry |-> [type |-> "Point", coordinates |-> coordinates(headed[i])],
             properties |-> to_dict(headed[i])]]

\* One Point feature for each point, in order.
point_features(points) ==
    [i \in 1..Len(points) |->
        [type |-> "Feature",
         geometry |-> [type |-> "Point", coordinates |-> coordinates(points[i])],
         properties |-> to_dict(points[i])]]

\* properties["gps"]
gps_properties(b) ==
    [lat_min |-> b.lat_min, lat_max |-> b.lat_max,
     lon_min |-> b.lon_min, lon_max |-> b.lon_max,
     center_lat |-> center_lat(b), center_lon |-> center_lon(b)]

\* properties["telemetry"]: six of the eight statistics.
telemetry_properties(t) ==
    [heading_avg |-> t.heading_avg,
     heading_min |-> t.heading_min,
     heading_max |-> t.heading_max,
     speed_avg_ms |-> t.speed_avg_ms,
     speed_max_ms |-> t.speed_max_ms,
     spray_rate_avg |-> t.spray_rate_avg]

\* The properties of the collection before the record is looked at.
own_properties(fd) ==
    LET base == ("record_id" :> fd.record_id) @@ ("total_points" :> Len(fd.points))
        gps == IF fd.bounds # None
               THEN ("gps" :> gps_properties(fd.bounds[1])) ELSE <<>>
        telemetry == IF fd.telemetry # None
                     THEN ("telemetry" :> telemetry_properties(fd.telemetry[1])) ELSE <<>>
    IN  base @@ gps @@ telemetry

\* The dict given to properties.update, or the exception of a property of
\* the record.
record_properties(record) ==
    LET start == isoformat(start_datetime(record))
        end == isoformat(end_datetime(record))
    IN  [ok |-> start.ok /\ end.ok,
         val |-> [flight_record_number |-> record.id,
                  serial_number |-> record.serial_number,
                  date |-> record.create_date,
                  start_datetime |-> start.val,
                  end_datetime |-> end.val,
                  duration_minutes |-> duration_minutes(record),
                  location |-> record.location,
                  drone_type |-> record.drone_type,
                  nickname |-> record.nickname,
                  pilot_name |-> record.flyer_name,
                  flight_height_m |-> record.radar_height,
                  work_area_ha |-> work_area_ha(record),
                  spray_usage_L |-> spray_usage_liters(record)]]

\* The properties replaced by the dict of the record.
update_replacing(properties, more) == more

\* properties.update(more): the keys of more are added, or overwritten.
update(properties, more) == more @@ properties

\* FlightData.to_geojson(record): record is None or a Record.
to_geojson(fd, record) ==
    LET more == IF record # None THEN record_properties(record[1]) ELSE Ok(<<>>)
        properties == IF record # None
                      THEN update(own_properties(fd), more.val)
                      ELSE own_properties(fd)
    IN  IF ~more.ok THEN Raise("ValueError")
        ELSE Ok([type |-> "FeatureCollection",
                 name |-> <<"DJI AG Flight ", fd.record_id>>,
                 properties |-> properties,
                 features |-> <<route_feature(fd.points)>> \o point_features(fd.points)])

\* flight_data.to_geojson(record) is called on the FlightData decode returned,
\* as GetFlightDataUseCase calls it; the FlightData is read, never assigned.
ToGeojson(record) ==
    /\ pc = "done"
    /\ geojson' = Append(geojson, [record |-> record,
                                   result |-> to_geojson(flight[1], record)])
    /\ UNCHANGED <<intact, data, stack, all_values, pc, flight, last, collected>>
    /\ UNCHANGED <<calls, thread_vars>>

-----------------------------------------------------------------------------
(* analyze_flight_full.py: parse_protobuf_full, the collector that also     *)
(* keeps strings.  Its decode_varint has the statements of _decode_varint. *)

\* A continuation byte of UTF-8.
utf8_continuation(b, i) == i <= Len(b) /\ b[i] \in 128..191

RECURSIVE utf8_from(_, _, _)
\* bytes.decode('utf-8') from byte i on: the code points, or
\* UnicodeDecodeError on a byte sequence that is not well-formed UTF-8.
utf8_from(b, i, text) ==
    IF i > Len(b) THEN Ok(text)
    ELSE LET c == b[i]
             low(k) == b[i + k] - 128
         IN  IF c < 128 THEN utf8_from(b, i + 1, Append(text, c))
             ELSE IF c \in 194..223 /\ utf8_continuation(b, i + 1)
             THEN utf8_from(b, i + 2, Append(text, (c - 192) * 64 + low(1)))
             ELSE IF /\ c \in 224..239
                     /\ utf8_continuation(b, i + 1)
                     /\ utf8_continuation(b, i + 2)
                     /\ (c = 224 => b[i + 1] >= 160)
                     /\ (c = 237 => b[i + 1] <= 159)
             THEN utf8_from(b, i + 3,
                      Append(text, (c - 224) * 4096 + low(1) * 64 + low(2)))
             ELSE IF /\ c \in 240..244
                     /\ utf8_continuation(b, i + 1)
                     /\ utf8_continuation(b, i + 2)
                     /\ utf8_continuation(b, i + 3)
                     /\ (c = 240 => b[i + 1] >= 144)
                     /\ (c = 244 => b[i + 1] <= 143)
             THEN utf8_from(b, i + 4,
                      Append(text, (c - 240) * 262144 + low(1) * 4096
                                       + low(2) * 64 + low(3)))
             ELSE Raise(text)

\* sub_data.decode('utf-8')
utf8_decode(b) == utf8_from(b, 1, <<>>)

\* str.isprintable on the code points below 256, all that the buffers of
\* this model hold: the controls 0..31 and 127..159, the no-break space 160
\* and the soft hyphen 173 are not printable; the space is.
isprintable(text) ==
    \A i \in 1..Len(text) :
        text[i] \in (32..126) \cup (161..172) \cup (174..255)

\* collected = {'doubles': [], 'floats': [], 'varints': [], 'strings': []}
new_collected ==
    [doubles |-> <<>>, floats |-> <<>>, varints |-> <<>>, strings |-> <<>>]

\* The activation record of one parse_protobuf_full call: the record of a
\* parse_recursive call with the path (the field numbers after "root") and
\* field_index.
full_frame(buf, depth, path) ==
    [buf |-> buf, pos |-> 0, depth |-> depth, length |-> 0,
     path |-> path, field_index |-> 0]

\* {'path': current_path, 'field': field, 'depth': depth, 'value': val,
\*  'index': field_index}
entry(f, field, val) ==
    [path |-> Append(f.path, field), field |-> field, depth |-> f.depth,
     value |-> val, index |-> f.field_index]

\* break, or the end of the loop: the call returns collected, and the caller
\* runs "pos += length" and "field_index += 1".
full_leave(stk, col) ==
    LET rest == SubSeq(stk, 1, Len(stk) - 1)
    IN  [stack |-> IF rest = <<>> THEN rest
                   ELSE [rest EXCEPT ![Len(rest)] =
                            [@ EXCEPT !.pos = @ + rest[Len(rest)].length,
                                      !.length = 0,
                                      !.field_index = @ + 1]],
         collected |-> col]

\* The end of an iteration: field_index += 1, the cursor at pos.
full_continue(stk, col, pos) ==
    [stack |-> [stk EXCEPT ![Len(stk)] =
                   [@ EXCEPT !.pos = pos, !.field_index = @ + 1]],
     collected |-> col]

\* text.isprintable() and len(text) > 0, text the decoded sub_data; an
\* exception of decode is passed over.
is_string(sub_data) ==
    LET text == utf8_decode(sub_data)
    IN  text.ok /\ isprintable(text.val) /\ Len(text.val) > 0

\* Which way the innermost call of parse_protobuf_full goes next.
full_branch(f) ==
    IF ~(f.pos < Len(f.buf)) THEN "end"
    ELSE LET tag == read_tag(f)
             wt == wire_type(tag.val)
         IN  IF tag.pos >= Len(f.buf) THEN "tag_at_end"
             ELSE IF wt = 0 THEN "varint"
             ELSE IF wt = 1 THEN "fixed64"
             ELSE IF wt = 2
                  THEN LET length == decode_varint(f.buf, tag.pos)
                       IN  IF span_accepted(length.val, length.pos, f.buf)
                           THEN "span" ELSE "span_break"
             ELSE IF wt = 5 THEN "fixed32"
             ELSE "wire_type"

\* One step of parse_protobuf_full in the innermost call.
full_step(stk, col) ==
    LET f == innermost(stk)
        b == full_branch(f)
        tag == read_tag(f)
        field == field_number(tag.val)
        pos == tag.pos
    IN  IF b = "varint"
        THEN LET v == decode_varint(f.buf, pos)
             IN  full_continue(stk,
                     [col EXCEPT !.varints = Append(@, entry(f, field, v.val))],
                     v.pos)
        ELSE IF b = "fixed64"
        THEN full_continue(stk,
                 IF pos + 8 <= Len(f.buf)
                 THEN [col EXCEPT !.doubles = Append(@, entry(f, field,
                          unpack_d(py_slice(f.buf, pos, pos + 8)).val))]
                 ELSE col,
                 pos + 8)
        ELSE IF b = "fixed32"
        THEN full_continue(stk,
                 IF pos + 4 <= Len(f.buf)
                 THEN [col EXCEPT !.floats = Append(@, entry(f, field,
                          unpack_f(py_slice(f.buf, pos, pos + 4)).val))]
                 ELSE col,
                 pos + 4)
        ELSE IF b = "span"
        THEN LET length == decode_varint(f.buf, pos)
                 n == ToNat(length.val)
                 sub_data == py_slice(f.buf, length.pos, length.pos + n)
             IN  [stack |-> Append(
                      [stk EXCEPT ![Len(stk)] =
                          [@ EXCEPT !.pos = length.pos, !.length = n]],
                      full_frame(sub_data, f.depth + 1, Append(f.path, field))),
                  collected |->
                      IF is_string(sub_data)
                      THEN [col EXCEPT !.strings = Append(@, entry(f, field,
                               utf8_decode(sub_data).val))]
                      ELSE col]
        ELSE full_leave(stk, col)

\* The innermost call of parse_protobuf_full is about to take branch b.
TakesFull(b) == pc = "parse_full" /\ stack # <<>> /\ full_branch(Top) = b

\* The innermost call takes its step; parse_protobuf_full(data) has
\* returned once the outermost call is left.
AdvanceFull ==
    LET r == full_step(stack, collected)
    IN  /\ stack' = r.stack
        /\ collected' = r.collected
        /\ pc' = IF r.stack = <<>> THEN "parsed" ELSE pc
        /\ last' = Note(full_branch(Top))
        /\ UNCHANGED <<intact, data, all_values, flight>>
        /\ UNCHANGED beside_decoding

\* while pos < len(data) fails
FullLoopEnd ==
    /\ TakesFull("end")
    /\ AdvanceFull

\* if tag is None or new_pos >= len(data): break
FullTagAtEnd ==
    /\ TakesFull("tag_at_end")
    /\ AdvanceFull

\* wire_type == 0
FullVarintField ==
    /\ TakesFull("varint")
    /\ AdvanceFull

\* wire_type == 1
FullFixed64Field ==
    /\ TakesFull("fixed64")
    /\ AdvanceFull

\* wire_type == 2 and "if length and pos + length <= len(data)" holds
FullLengthDelimitedField ==
    /\ TakesFull("span")
    /\ AdvanceFull

\* wire_type == 2, else: break
FullLengthDelimitedBreak ==
    /\ TakesFull("span_break")
    /\ AdvanceFull

\* wire_type == 5
FullFixed32Field ==
    /\ TakesFull("fixed32")
    /\ AdvanceFull

\* else: break
FullUnsupportedWireType ==
    /\ TakesFull("wire_type")
    /\ AdvanceFull

-----------------------------------------------------------------------------
(* The buffers decode is run on.                                           *)

\* Every byte string up to MaxLen over SmallBytes: the tags of field 0 and
\* field 1 in each wire type, small lengths and values, a continuation byte.
MaxLen == 4
SmallBytes == {0, 1, 2, 5, 8, 10, 11, 128}
ShortBuffers == UNION {[1..n -> SmallBytes] : n \in 0..MaxLen}

RECURSIVE encode_varint(_)
\* The standard varint encoding: 7 bits a byte, low group first, 0x80 on
\* every byte but the last.
encode_varint(n) ==
    IF n < 128 THEN <<n>> ELSE <<128 + (n % 128)>> \o encode_varint(n \div 128)

\* Encoded fields: int_1 = 1, dbl_1 = -25.0, dbl_2 = -48.0.
CoreFields ==
    { <<8, 1>>, <<9, 0, 0, 0, 0, 0, 0, 57, 192>>,
      <<17, 0, 0, 0, 0, 0, 0, 72, 192>> }

\* More encoded fields: int_2 = 300, int_1 = 10^15, int_1 = 10^15 - 1,
\* dbl_1 = 40.0, dbl_1 = 1e10, dbl_1 = NaN, dbl_3 = 90.0, flt_1 = 3.0,
\* flt_1 = -1e10, flt_2 = 4.0, flt_3 = 12.5, a tag of wire type 3 with a
\* byte after it, the text "AB" as field 1.
ScalarFields ==
    CoreFields \cup
    { <<16, 172, 2>>,
      <<8, 128, 128, 154, 166, 234, 175, 227, 1>>,
      <<8, 255, 255, 153, 166, 234, 175, 227, 1>>,
      <<9, 0, 0, 0, 0, 0, 0, 68, 64>>, <<9, 0, 0, 0, 32, 95, 160, 2, 66>>,
      <<9, 0, 0, 0, 0, 0, 0, 248, 127>>, <<25, 0, 0, 0, 0, 0, 128, 86, 64>>,
      <<13, 0, 0, 64, 64>>, <<13, 249, 2, 21, 208>>, <<21, 0, 0, 128, 64>>,
      <<29, 0, 0, 72, 65>>, <<11, 0>>, <<10, 2, 65, 66>> }

\* Messages of at most MaxFields core fields, or of one field.
MaxFields == 2

RECURSIVE CoreMessages(_)
CoreMessages(n) ==
    IF n = 0 THEN {<<>>}
    ELSE CoreMessages(n - 1)
         \cup {m \o f : m \in CoreMessages(n - 1), f \in CoreFields}

Leaves == CoreMessages(MaxFields) \cup ScalarFields

\* A message m between the sibling fields s[1] and s[2] (none, or int_3 = 300
\* before it and int_2 = 1 after it); and that as the length-delimited
\* field 1 of a parent, between the same siblings, n levels up to MaxNest.
MaxNest == 7
Alone == <<<<>>, <<>>>>
WithSiblings == <<<<24, 172, 2>>, <<16, 1>>>>
Siblings == {Alone, WithSiblings}
Wrap(m, s) == s[1] \o <<10>> \o encode_varint(Len(m)) \o m \o s[2]

RECURSIVE Nest(_, _, _)
Nest(m, s, n) ==
    IF n = 0 THEN s[1] \o m \o s[2] ELSE Wrap(Nest(m, s, n - 1), s)

Messages ==
    {Nest(m, s, n) : m \in Leaves, s \in Siblings, n \in 0..MaxNest}

\* A message cut at any offset.
Truncations(m) == {SubSeq(m, 1, k) : k \in 0..Len(m)}

\* The varint encodings of 0..MaxVarint and of the values around each
\* change of length up to 2^31 - 1.
MaxVarint == 300
VarintSamples ==
    (0..MaxVarint) \cup {16383, 16384, 2097151, 2097152, 268435455, 268435456,
                         2147483647}

\* decode(binary_data, record_id) is called: _extract_all_values creates the
\* empty all_values and calls parse_recursive(data).  The buffer is a short
\* byte string, a varint, or a message cut at any offset.
Init ==
    /\ intact \in ShortBuffers \cup {encode_varint(n) : n \in VarintSamples}
                            \cup Messages
    /\ data \in IF intact \in Messages THEN Truncations(intact) ELSE {intact}
    /\ stack = <<Frame(data, 0)>>
    /\ all_values = <<>>
    /\ pc = "extract"
    /\ flight = None
    /\ last = [op |-> "call", depth |-> 0, at |-> 0, tag |-> <<>>, new_pos |-> 0]
    /\ collected = None
    /\ Untouched

Next ==
    \/ DepthExceeded
    \/ LoopEnd
    \/ TagAtEnd
    \/ VarintField
    \/ Fixed64Field
    \/ LengthDelimitedField
    \/ LengthDelimitedBreak
    \/ Fixed32Field
    \/ UnsupportedWireType
    \/ Assemble

Spec == Init /\ [][Next]_vars

\* The spans parse_protobuf_full is given: printable text, text with a line
\* feed, with an accented letter, with a no-break space, bytes that are not
\* UTF-8, text that is also a message with a value, a message that is not
\* printable, and the empty span.
TextSpans ==
    { <<65, 66>>, <<65, 10>>, <<32>>, <<195, 169>>, <<194, 160>>, <<195>>,
      <<128>>, <<40, 65>>, <<8, 1>>, <<>> }

\* The span t as the length-delimited field 2.
StringField(t) == <<18>> \o encode_varint(Len(t)) \o t

MaxTextNest == 2

FullBuffers ==
    ShortBuffers
    \cup {Nest(StringField(t), s, n) :
              t \in TextSpans, s \in Siblings, n \in 0..MaxTextNest}
    \cup {Nest(f, s, n) : f \in ScalarFields, s \in Siblings, n \in 0..1}

\* parse_protobuf_full(data) is called, as analyze_flight_data calls it.
InitFull ==
    /\ intact \in FullBuffers
    /\ data = intact
    /\ stack = <<full_frame(data, 0, <<>>)>>
    /\ all_values = <<>>
    /\ pc = "parse_full"
    /\ flight = None
    /\ last = [op |-> "call", depth |-> 0, at |-> 0, tag |-> <<>>, new_pos |-> 0]
    /\ collected = new_collected
    /\ Untouched

NextFull ==
    \/ FullLoopEnd
    \/ FullTagAtEnd
    \/ FullVarintField
    \/ FullFixed64Field
    \/ FullLengthDelimitedField
    \/ FullLengthDelimitedBreak
    \/ FullFixed32Field
    \/ FullUnsupportedWireType

SpecFull == InitFull /\ [][NextFull]_vars

-----------------------------------------------------------------------------
(* Flight records: decode on messages in the layout it reads, the fields   *)
(* of each record at depth 3.                                              *)

\* What a record carries below its own level: a latitude -20.0 and a
\* longitude -50.0 one level down, and int_1 = 1 three levels further down.
Below ==
    <<9, 0, 0, 0, 0, 0, 0, 52, 192>>
    \o <<17, 0, 0, 0, 0, 0, 0, 73, 192>>
    \o Nest(<<8, 1>>, Alone, 3)

\* The whole record: latitude -25.0, longitude -48.0, heading 90.0,
\* velocity 3.0 and 4.0, spray 12.5; then int_4 = 7, Below as field 5, and a
\* tag with nothing after it.
RecordFull ==
    <<9, 0, 0, 0, 0, 0, 0, 57, 192>>
    \o <<17, 0, 0, 0, 0, 0, 0, 72, 192>>
    \o <<25, 0, 0, 0, 0, 0, 128, 86, 64>>
    \o <<13, 0, 0, 64, 64>>
    \o <<21, 0, 0, 128, 64>>
    \o <<29, 0, 0, 72, 65>>
    \o <<32, 7>>
    \o <<42>> \o encode_varint(Len(Below)) \o Below
    \o <<8>>

\* Coordinates only, -10.5 and -40.0; then a group-start tag.
RecordBare ==
    <<9, 0, 0, 0, 0, 0, 0, 37, 192>>
    \o <<17, 0, 0, 0, 0, 0, 0, 68, 192>>
    \o <<11, 0>>

\* Latitude 40.0, outside the box; longitude -48.0, heading 45.0,
\* velocity 1.0 and 1.0, spray 20.0.
RecordAbroad ==
    <<9, 0, 0, 0, 0, 0, 0, 68, 64>>
    \o <<17, 0, 0, 0, 0, 0, 0, 72, 192>>
    \o <<25, 0, 0, 0, 0, 0, 128, 70, 64>>
    \o <<13, 0, 0, 128, 63>>
    \o <<21, 0, 0, 128, 63>>
    \o <<29, 0, 0, 160, 65>>

\* Every telemetry value on a limit of its range: -30.0, -60.0, heading
\* 180.0, velocity 30.0 and -30.0, spray 0.0.
RecordEdge ==
    <<9, 0, 0, 0, 0, 0, 0, 62, 192>>
    \o <<17, 0, 0, 0, 0, 0, 0, 78, 192>>
    \o <<25, 0, 0, 0, 0, 0, 128, 102, 64>>
    \o <<13, 0, 0, 240, 65>>
    \o <<21, 0, 0, 240, 193>>
    \o <<29, 0, 0, 0, 0>>

\* Latitude -35.0, the limit of the box; longitude -48.0, heading
\* -180.0, spray 50.0.
RecordBorder ==
    <<9, 0, 0, 0, 0, 0, 128, 65, 192>>
    \o <<17, 0, 0, 0, 0, 0, 0, 72, 192>>
    \o <<25, 0, 0, 0, 0, 0, 128, 102, 192>>
    \o <<29, 0, 0, 72, 66>>

\* The coordinates of RecordFull, heading 200.0, velocity_x 6.0 with no
\* velocity_y, spray 60.0; then a second latitude, -20.0, and a span longer
\* than the record.
RecordWild ==
    <<9, 0, 0, 0, 0, 0, 0, 57, 192>>
    \o <<17, 0, 0, 0, 0, 0, 0, 72, 192>>
    \o <<25, 0, 0, 0, 0, 0, 0, 105, 64>>
    \o <<13, 0, 0, 192, 64>>
    \o <<29, 0, 0, 112, 66>>
    \o <<9, 0, 0, 0, 0, 0, 0, 52, 192>>
    \o <<18, 5, 1>>

Records ==
    {RecordFull, RecordBare, RecordAbroad, RecordEdge, RecordBorder, RecordWild}

MaxRecords == 3

RECURSIVE RecordLists(_)
\* The lists of at most n records.
RecordLists(n) ==
    IF n = 0 THEN {<<>>}
    ELSE RecordLists(n - 1)
         \cup {Append(rs, r) : rs \in RecordLists(n - 1), r \in Records}

RECURSIVE Container(_)
\* The records, each as the length-delimited field 1.
Container(rs) ==
    IF rs = <<>> THEN <<>> ELSE Wrap(Head(rs), Alone) \o Container(Tail(rs))

\* The records three levels down, int_3 = 300 and int_2 = 1 around each of
\* the levels above them.
FlightMessage(rs) == Nest(Container(rs), WithSiblings, 2)

FlightMessages == {FlightMessage(rs) : rs \in RecordLists(MaxRecords)}

\* decode(binary_data, record_id) is called on a flight message.
InitFlight ==
    /\ intact \in FlightMessages
    /\ data = intact
    /\ stack = <<Frame(data, 0)>>
    /\ all_values = <<>>
    /\ pc = "extract"
    /\ flight = None
    /\ last = [op |-> "call", depth |-> 0, at |-> 0, tag |-> <<>>, new_pos |-> 0]
    /\ collected = None
    /\ Untouched

SpecFlight == InitFlight /\ [][Next]_vars

-----------------------------------------------------------------------------
(* Calls of to_geojson: without a record and with records that have no      *)
(* metadata, all of it, zeros, or a start in milliseconds.                 *)

BareRecord ==
    [id |-> "id", serial_number |-> None, create_date |-> None,
     start_timestamp |-> None, end_timestamp |-> None, location |-> None,
     drone_type |-> None, nickname |-> None, flyer_name |-> None,
     radar_height |-> None, new_work_area |-> None, spray_usage |-> None]

FullRecord ==
    [id |-> "id", serial_number |-> Some("serial"), create_date |-> Some("date"),
     start_timestamp |-> Some(Big(1700000000)),
     end_timestamp |-> Some(Big(1700000090)),
     location |-> Some("location"), drone_type |-> Some("drone"),
     nickname |-> Some("nickname"), flyer_name |-> Some("flyer"),
     radar_height |-> Some(FromSixteenths(48)),
     new_work_area |-> Some(FromSixteenths(200000)),
     spray_usage |-> Some(FromSixteenths(40000))]

ZeroRecord ==
    [FullRecord EXCEPT !.start_timestamp = Some(Big(0)),
                       !.new_work_area = Some(FromSixteenths(0)),
                       !.spray_usage = Some(FromSixteenths(0))]

\* 1700000000000, a start in milliseconds.
MillisRecord ==
    [FullRecord EXCEPT !.start_timestamp = Some(<<0, 80, 21, 127, 60, 49>>)]

RecordArguments ==
    {None, Some(BareRecord), Some(FullRecord), Some(ZeroRecord), Some(MillisRecord)}

MaxCalls == 2

MaxGeoRecords == 2

\* decode is called on a flight message, and to_geojson on its FlightData.
InitGeo ==
    /\ intact \in {FlightMessage(rs) : rs \in RecordLists(MaxGeoRecords)}
    /\ data = intact
    /\ stack = <<Frame(data, 0)>>
    /\ all_values = <<>>
    /\ pc = "extract"
    /\ flight = None
    /\ last = [op |-> "call", depth |-> 0, at |-> 0, tag |-> <<>>, new_pos |-> 0]
    /\ collected = None
    /\ Untouched

NextGeo ==
    \/ Next
    \/ \E record \in RecordArguments : Len(geojson) < MaxCalls /\ ToGeojson(record)

SpecGeo == InitGeo /\ [][NextGeo]_vars

-----------------------------------------------------------------------------
(* Several calls of decode on one ProtobufDecoder, from threads that take   *)
(* their steps in any order.  The decoder has one attribute, _settings,     *)
(* which no call assigns; all_values is created by each call of             *)
(* _extract_all_values.                                                     *)

Callers == {"a", "b"}

CallBuffers == {FlightMessage(<<r>>) : r \in {RecordFull, RecordBare, RecordAbroad}}

\* A thread that has not called decode.
NotCalled ==
    [pc |-> "idle", data |-> <<>>, stack |-> <<>>, all_values |-> <<>>,
     flight |-> None, overlapped |-> FALSE]

\* The caller whose dict is the one every call fills.
accumulator_of_decoder(c) == "a"

\* The caller whose dict the call of c fills: the all_values it created.
accumulator(c) == c

\* Another call is between its first statement and its return.
Overlaps(c) == \E o \in Callers \ {c} : calls[o].pc \in {"extract", "assemble"}

\* decode(binary_data, record_id) is called by c: _extract_all_values
\* creates all_values and calls parse_recursive(data).
DecodeCall(c, buf) ==
    /\ calls[c].pc = "idle"
    /\ calls' = [calls EXCEPT ![c] = [NotCalled EXCEPT !.pc = "extract",
                                                       !.data = buf,
                                                       !.stack = <<Frame(buf, 0)>>],
                              ![accumulator(c)].all_values = <<>>]
    /\ UNCHANGED <<intact, data, stack, all_values, pc, flight, last, collected,
                   geojson, thread_vars>>

\* The innermost parse_recursive of the call of c takes a step.
DecodeStep(c) ==
    /\ calls[c].pc = "extract"
    /\ LET r == parse_step(calls[c].stack, calls[accumulator(c)].all_values)
       IN  calls' = [calls EXCEPT
                        ![c].stack = r.stack,
                        ![c].pc = IF r.stack = <<>> THEN "assemble" ELSE "extract",
                        ![c].overlapped = @ \/ Overlaps(c),
                        ![accumulator(c)].all_values = r.vals]
    /\ UNCHANGED <<intact, data, stack, all_values, pc, flight, last, collected,
                   geojson, thread_vars>>

\* The call of c builds its FlightData and returns it.
DecodeReturn(c) ==
    /\ calls[c].pc = "assemble"
    /\ LET r == flight_data(calls[accumulator(c)].all_values)
       IN  calls' = [calls EXCEPT
                        ![c].pc = IF r.ok THEN "done" ELSE "raised",
                        ![c].flight = IF r.ok THEN Some(r.val) ELSE None]
    /\ UNCHANGED <<intact, data, stack, all_values, pc, flight, last, collected,
                   geojson, thread_vars>>

\* A ProtobufDecoder that no thread has called yet.
InitCalls ==
    /\ intact = <<>>
    /\ data = <<>>
    /\ stack = <<>>
    /\ all_values = <<>>
    /\ pc = "idle"
    /\ flight = None
    /\ last = [op |-> "call", depth |-> 0, at |-> 0, tag |-> <<>>, new_pos |-> 0]
    /\ collected = None
    /\ geojson = <<>>
    /\ calls = [c \in Callers |-> NotCalled]
    /\ NoThread

NextCalls ==
    \/ \E c \in Callers, buf \in CallBuffers : DecodeCall(c, buf)
    \/ \E c \in Callers : DecodeStep(c)
    \/ \E c \in Callers : DecodeReturn(c)

SpecCalls == InitCalls /\ [][NextCalls]_vars

-----------------------------------------------------------------------------
(* browser_service.py: PlaywrightThread.  Threads call start, stop and      *)
(* execute on the one PlaywrightThread of get_playwright_thread.  A read    *)
(* or write of _running or _thread and a queue operation is a step; taking  *)
(* and releasing _lock belongs to the step next to it, since only start     *)
(* and stop look at the lock.  A task is Some([func, by]), the sentinel is  *)
(* None.  Time is not modelled: a get on an empty queue may time out, and a *)
(* join may time out while the worker it waits for runs a function.         *)

Threads == {"t1", "t2", "t3"}

\* The function each thread submits: the second one raises.
Function(t) == IF t = "t2" THEN "failing" ELSE "navigate"

\* Calls of start, stop and execute made in all.
MaxOperations == 5

\* A thread that is in none of start, stop and execute.
NoCall == [pc |-> "outside", within |-> "", result_queue |-> <<>>]

\* The state of thread t becomes st.
Goes(t, st) == threads' = [threads EXCEPT ![t].pc = st]

\* The worker that is not dead.
Alive(w) == workers[w].pc # "dead"

\* PlaywrightThread() is created, as get_playwright_thread does; the start()
\* it calls there is the first call a thread makes here.
InitThread ==
    /\ intact = <<>>
    /\ data = <<>>
    /\ stack = <<>>
    /\ all_values = <<>>
    /\ pc = "idle"
    /\ flight = None
    /\ last = [op |-> "call", depth |-> 0, at |-> 0, tag |-> <<>>, new_pos |-> 0]
    /\ collected = None
    /\ geojson = <<>>
    /\ calls = <<>>
    /\ running = FALSE
    /\ thread = None
    /\ task_queue = <<>>
    /\ lock = None
    /\ playwright = None
    /\ workers = <<>>
    /\ threads = [t \in Threads |-> NoCall]
    /\ trace = [operations |-> 0, pending |-> <<>>, ran_on |-> {}]

\* t calls start(), stop() or execute(func).
Call(t, method) ==
    /\ threads[t].pc = "outside"
    /\ trace.operations < MaxOperations
    /\ threads' = [threads EXCEPT ![t].pc = method, ![t].within = method]
    /\ trace' = [trace EXCEPT !.operations = @ + 1]
    /\ UNCHANGED <<running, thread, task_queue, lock, playwright, workers>>
    /\ UNCHANGED <<decoder_vars, geojson, calls>>

CallStart(t) == Call(t, "start")

CallStop(t) == Call(t, "stop")

CallExecute(t) == Call(t, "execute")

\* start, under the lock: if not self._running: self._running = True;
\* self._thread = Thread(target=self._worker); self._thread.start().
\* execute goes on after its start().
Start(t) ==
    /\ threads[t].pc = "start"
    /\ lock = None
    /\ IF running
       THEN UNCHANGED <<running, thread, workers>>
       ELSE /\ running' = TRUE
            /\ workers' = Append(workers, [pc |-> "loop", task |-> None])
            /\ thread' = Some(Len(workers) + 1)
    /\ Goes(t, IF threads[t].within = "execute" THEN "execute_put" ELSE "outside")
    /\ UNCHANGED <<task_queue, lock, playwright, trace>>
    /\ UNCHANGED <<decoder_vars, geojson, calls>>

\* stop takes the lock: self._running = False
StopRunning(t) ==
    /\ threads[t].pc = "stop"
    /\ lock = None
    /\ lock' = Some(t)
    /\ running' = FALSE
    /\ Goes(t, "stop_put")
    /\ UNCHANGED <<thread, task_queue, playwright, workers, trace>>
    /\ UNCHANGED <<decoder_vars, geojson, calls>>

\* stop: if self._thread: self._task_queue.put(None); without a thread stop
\* is over and the lock released.
StopPut(t) ==
    /\ threads[t].pc = "stop_put"
    /\ IF thread # None
       THEN task_queue' = Append(task_queue, None) /\ Goes(t, "stop_join")
                                                   /\ UNCHANGED lock
       ELSE UNCHANGED task_queue /\ Goes(t, "outside") /\ lock' = None
    /\ UNCHANGED <<running, thread, playwright, workers, trace>>
    /\ UNCHANGED <<decoder_vars, geojson, calls>>

\* stop: self._thread.join(timeout=5); self._thread = None, and the lock is
\* released.  The join returns when the worker has ended, or after 5
\* seconds of a function the worker is running.
StopJoin(t) ==
    /\ threads[t].pc = "stop_join"
    /\ workers[thread[1]].pc \in {"dead", "run"}
    /\ thread' = None
    /\ lock' = None
    /\ Goes(t, "outside")
    /\ UNCHANGED <<running, task_queue, playwright, workers, trace>>
    /\ UNCHANGED <<decoder_vars, geojson, calls>>

\* execute: if not self._running: self.start()
ExecuteCheck(t) ==
    /\ threads[t].pc = "execute"
    /\ Goes(t, IF running THEN "execute_put" ELSE "start")
    /\ UNCHANGED <<running, thread, task_queue, lock, playwright, workers, trace>>
    /\ UNCHANGED <<decoder_vars, geojson, calls>>

\* execute: result_queue = queue.Queue();
\* self._task_queue.put((func, args, kwargs, result_queue))
ExecutePut(t) ==
    /\ threads[t].pc = "execute_put"
    /\ task_queue' = Append(task_queue, Some([func |-> Function(t), by |-> t]))
    /\ threads' = [threads EXCEPT ![t].pc = "execute_wait", ![t].result_queue = <<>>]
    /\ trace' = [trace EXCEPT !.pending = Append(@, [func |-> Function(t), by |-> t])]
    /\ UNCHANGED <<running, thread, lock, playwright, workers>>
    /\ UNCHANGED <<decoder_vars, geojson, calls>>

\* execute: status, result = result_queue.get(); raise or return the result.
ExecuteReturn(t) ==
    /\ threads[t].pc = "execute_wait"
    /\ threads[t].result_queue # <<>>
    /\ threads' = [threads EXCEPT ![t] = NoCall]
    /\ UNCHANGED <<running, thread, task_queue, lock, playwright, workers, trace>>
    /\ UNCHANGED <<decoder_vars, geojson, calls>>

\* _worker: "while self._running:" - the worker goes on to get, or ends.
WorkerLoop(w) ==
    /\ workers[w].pc = "loop"
    /\ workers' = [workers EXCEPT ![w].pc = IF running THEN "get" ELSE "dead"]
    /\ UNCHANGED <<running, thread, task_queue, lock, playwright, threads, trace>>
    /\ UNCHANGED <<decoder_vars, geojson, calls>>

\* _worker: task = self._task_queue.get(timeout=1) gives an item; the
\* sentinel ends the worker, a task is unpacked and its function called.
WorkerGet(w) ==
    /\ workers[w].pc = "get"
    /\ task_queue # <<>>
    /\ task_queue' = Tail(task_queue)
    /\ IF Head(task_queue) = None
       THEN /\ workers' = [workers EXCEPT ![w].pc = "dead"]
            /\ UNCHANGED trace
       ELSE /\ workers' = [workers EXCEPT ![w].pc = "run", ![w].task = Head(task_queue)]
            /\ trace' = [trace EXCEPT !.pending = Tail(@), !.ran_on = @ \cup {w}]
    /\ UNCHANGED <<running, thread, lock, playwright, threads>>
    /\ UNCHANGED <<decoder_vars, geojson, calls>>

\* _worker: the get finds the queue empty for 1 second - queue.Empty, continue.
WorkerEmpty(w) ==
    /\ workers[w].pc = "get"
    /\ task_queue = <<>>
    /\ workers' = [workers EXCEPT ![w].pc = "loop"]
    /\ UNCHANGED <<running, thread, task_queue, lock, playwright, threads, trace>>
    /\ UNCHANGED <<decoder_vars, geojson, calls>>

\* _worker: func(*args, **kwargs) ends and its outcome is put on the
\* result_queue of the task.  The function is one of the _do_ methods, which
\* begin with _do_initialize: sync_playwright().start() if there is none.
WorkerPut(w) ==
    /\ workers[w].pc = "run"
    /\ LET task == workers[w].task[1]
           outcome == [status |-> IF task.func = "failing" THEN "error" ELSE "success",
                       func |-> task.func, by |-> task.by]
       IN  threads' = [threads EXCEPT ![task.by].result_queue = Append(@, outcome)]
    /\ playwright' = IF playwright = None THEN Some(w) ELSE playwright
    /\ workers' = [workers EXCEPT ![w].pc = "loop", ![w].task = None]
    /\ UNCHANGED <<running, thread, task_queue, lock, trace>>
    /\ UNCHANGED <<decoder_vars, geojson, calls>>

\* A step of a call that was made, or of a worker.
Progress ==
    \/ \E t \in Threads : Start(t)
    \/ \E t \in Threads : StopRunning(t)
    \/ \E t \in Threads : StopPut(t)
    \/ \E t \in Threads : StopJoin(t)
    \/ \E t \in Threads : ExecuteCheck(t)
    \/ \E t \in Threads : ExecutePut(t)
    \/ \E t \in Threads : ExecuteReturn(t)
    \/ \E w \in DOMAIN workers : WorkerLoop(w)
    \/ \E w \in DOMAIN workers : WorkerGet(w)
    \/ \E w \in DOMAIN workers : WorkerEmpty(w)
    \/ \E w \in DOMAIN workers : WorkerPut(w)

NextThread ==
    \/ \E t \in Threads : CallStart(t)
    \/ \E t \in Threads : CallStop(t)
    \/ \E t \in Threads : CallExecute(t)
    \/ Progress

SpecThread == InitThread /\ [][NextThread]_vars

\* The steps of one thread inside its call, and of one worker.
ThreadStep(t) ==
    \/ Start(t)
    \/ StopRunning(t)
    \/ StopPut(t)
    \/ StopJoin(t)
    \/ ExecuteCheck(t)
    \/ ExecutePut(t)
    \/ ExecuteReturn(t)

WorkerStep(w) ==
    /\ w \in DOMAIN workers
    /\ (WorkerLoop(w) \/ WorkerGet(w) \/ WorkerEmpty(w) \/ WorkerPut(w))

\* Every thread and every worker that can take a step takes one in the
\* end, and so every function called ends; no thread has to make a call.
SpecThreadFair ==
    /\ SpecThread
    /\ \A t \in Threads : WF_vars(ThreadStep(t))
    /\ \A w \in 1..MaxOperations : WF_vars(WorkerStep(w))

-----------------------------------------------------------------------------
(* download_all_records_v3.py: create_geojson_with_metadata, the script the *)
(* decoder was taken from.                                                 *)

\* extract_all_values(data, max_depth=6) and its decode_varint: statement
\* by statement those of _extract_all_values and _decode_varint.
script_extract_all_values(buf) == extract_all_values(buf)

\* The literals -35, -5 and -75 of the script.
F_minus_35 == Dbl(1, 1028, 98304, 0, 0)
F_minus_5 == Dbl(1, 1025, 262144, 0, 0)
F_minus_75 == Dbl(1, 1029, 180224, 0, 0)

\* The test with the limits included.
valid_pair_closed(lat, lon) ==
    /\ FloatLe(F_minus_35, lat) /\ FloatLe(lat, F_minus_5)
    /\ FloatLe(F_minus_75, lon) /\ FloatLe(lon, F_minus_35)

\* if -35 < lat < -5 and -75 < lon < -35
valid_pair(lat, lon) ==
    /\ FloatLt(F_minus_35, lat) /\ FloatLt(lat, F_minus_5)
    /\ FloatLt(F_minus_75, lon) /\ FloatLt(lon, F_minus_35)

\* point = {'lat': lat, 'lon': lon, 'heading': raw_headings[i] if ... else
\* None, ...}: the values as they are in the lists, not rounded.
valid_point(vals, i) ==
    LET raw_headings == bucket(vals, 3, "dbl", 3)
        raw_vel_x == bucket(vals, 3, "flt", 1)
        raw_vel_y == bucket(vals, 3, "flt", 2)
        raw_spray == bucket(vals, 3, "flt", 3)
    IN  [lat |-> bucket(vals, 3, "dbl", 1)[i + 1],
         lon |-> bucket(vals, 3, "dbl", 2)[i + 1],
         heading |->
             IF i < Len(raw_headings)
                /\ FloatLe(Neg(F_180), raw_headings[i + 1])
                /\ FloatLe(raw_headings[i + 1], F_180)
             THEN Some(raw_headings[i + 1]) ELSE None,
         vel_x |->
             IF i < Len(raw_vel_x)
                /\ FloatLt(Neg(F_30), raw_vel_x[i + 1])
                /\ FloatLt(raw_vel_x[i + 1], F_30)
             THEN Some(raw_vel_x[i + 1]) ELSE None,
         vel_y |->
             IF i < Len(raw_vel_y)
                /\ FloatLt(Neg(F_30), raw_vel_y[i + 1])
                /\ FloatLt(raw_vel_y[i + 1], F_30)
             THEN Some(raw_vel_y[i + 1]) ELSE None,
         spray |->
             IF i < Len(raw_spray)
                /\ FloatLt(F_0, raw_spray[i + 1])
                /\ FloatLt(raw_spray[i + 1], F_50)
             THEN Some(raw_spray[i + 1]) ELSE None]

RECURSIVE valid_points_from(_, _, _, _)
\* for i in range(num_raw): ... valid_points.append(point)
valid_points_from(vals, i, num_raw, points) ==
    IF i >= num_raw THEN points
    ELSE LET lat == bucket(vals, 3, "dbl", 1)[i + 1]
             lon == bucket(vals, 3, "dbl", 2)[i + 1]
         IN  valid_points_from(vals, i + 1, num_raw,
                 IF valid_pair(lat, lon)
                 THEN Append(points, valid_point(vals, i))
                 ELSE points)

valid_points(vals) ==
    valid_points_from(vals, 0,
        Min2(Len(bucket(vals, 3, "dbl", 1)), Len(bucket(vals, 3, "dbl", 2))),
        <<>>)

\* properties["key"] = value, only "if value is not None"
property_if_set(key, value) ==
    IF value # None THEN key :> round2(value[1]) ELSE <<>>

\* The properties of the feature of point i: index, latitude, longitude,
\* the rounded values that are not None, and the rounded speed of the
\* values as they were before rounding.
script_point_properties(i, p) ==
    ("index" :> i) @@ ("latitude" :> p.lat) @@ ("longitude" :> p.lon)
    @@ property_if_set("heading", p.heading)
    @@ property_if_set("velocity_x", p.vel_x)
    @@ property_if_set("velocity_y", p.vel_y)
    @@ property_if_set("spray_rate", p.spray)
    @@ (IF p.vel_x # None /\ p.vel_y # None
        THEN "speed_ms" :> round2(float_sqrt(float_add(float_square(p.vel_x[1]),
                                                       float_square(p.vel_y[1]))))
        ELSE <<>>)

\* for i, p in enumerate(valid_points): point_features.append({...})
script_point_features(points) ==
    [k \in 1..Len(points) |->
        [type |-> "Feature",
         geometry |-> [type |-> "Point",
                       coordinates |-> <<points[k].lon, points[k].lat>>],
         properties |-> script_point_properties(k - 1, points[k])]]

script_route_feature(points) ==
    [type |-> "Feature",
     geometry |-> [type |-> "LineString",
                   coordinates |->
                       [k \in 1..Len(points) |-> <<points[k].lon, points[k].lat>>]],
     properties |-> [type |-> "flight_path", total_points |-> Len(points)]]

\* api_metadata.get(key): None for a key the dict has not.
get(api_metadata, key) ==
    IF key \in DOMAIN api_metadata THEN api_metadata[key] ELSE None

\* datetime.fromtimestamp(ts).isoformat() if ts else None
script_datetime(ts) ==
    IF timestamp_set(ts)
    THEN LET d == fromtimestamp(ts[1])
         IN  [ok |-> d.ok, val |-> Some([isoformat |-> d.val])]
    ELSE Ok(None)

\* (end_ts - start_ts) if (start_ts and end_ts) else None
script_duration_seconds(start_ts, end_ts) ==
    IF timestamp_set(start_ts) /\ timestamp_set(end_ts)
    THEN Some([sub |-> <<end_ts[1], start_ts[1]>>])
    ELSE None

\* round(duration_seconds / 60, 1) if duration_seconds else None
script_duration_minutes(seconds) ==
    IF seconds # None /\ seconds[1].sub[1] # seconds[1].sub[2]
    THEN Some([round |-> [div |-> <<seconds[1], 60>>], ndigits |-> 1])
    ELSE None

\* round(api_metadata.get(key, 0) / by, 2): TypeError when the dict holds
\* None under the key.
script_scaled(api_metadata, key, by) ==
    IF key \notin DOMAIN api_metadata
    THEN Ok([round |-> [div |-> <<0, by>>], ndigits |-> 2])
    ELSE IF api_metadata[key] = None THEN Raise("TypeError")
    ELSE Ok([round |-> [div |-> <<api_metadata[key][1], by>>], ndigits |-> 2])

\* "gps": the limits of the points and the middle of the limits.
script_gps(points) ==
    LET latitudes == [k \in 1..Len(points) |-> points[k].lat]
        longitudes == [k \in 1..Len(points) |-> points[k].lon]
    IN  [total_points |-> Len(points),
         lat_min |-> py_min(latitudes).val,
         lat_max |-> py_max(latitudes).val,
         lon_min |-> py_min(longitudes).val,
         lon_max |-> py_max(longitudes).val,
         center_lat |-> float_half(float_add(py_min(latitudes).val,
                                             py_max(latitudes).val)),
         center_lon |-> float_half(float_add(py_min(longitudes).val,
                                             py_max(longitudes).val))]

\* round(sum(xs) / len(xs) if xs else 0, 2)
script_average(xs) ==
    IF xs # <<>> THEN [op |-> "avg", of |-> xs, ndigits |-> 2] ELSE 0

\* round(min(xs), 2) if xs else None, and the same of max
script_limit(op, xs) ==
    IF xs # <<>> THEN Some([op |-> op, of |-> xs, ndigits |-> 2]) ELSE None

\* [round(min(xs), 2), round(max(xs), 2)] if xs else None
script_range(xs) ==
    IF xs # <<>>
    THEN Some(<<[op |-> "min", of |-> xs, ndigits |-> 2],
                [op |-> "max", of |-> xs, ndigits |-> 2]>>)
    ELSE None

\* "telemetry": the statistics of the values that are not None; the speeds
\* are those of the values before rounding.
script_telemetry(points) ==
    LET of(field) == defined_values([k \in 1..Len(points) |-> points[k][field]])
        speeds == defined_values(
            [k \in 1..Len(points) |->
                IF points[k].vel_x # None /\ points[k].vel_y # None
                THEN Some([sqrt |-> [add |-> <<[square |-> points[k].vel_x[1]],
                                               [square |-> points[k].vel_y[1]]>>]])
                ELSE None])
    IN  [heading_avg |-> script_average(of("heading")),
         heading_min |-> script_limit("min", of("heading")),
         heading_max |-> script_limit("max", of("heading")),
         speed_avg_ms |-> script_average(speeds),
         speed_max_ms |-> IF speeds # <<>>
                          THEN [op |-> "max", of |-> speeds, ndigits |-> 2] ELSE 0,
         spray_rate_avg |-> script_average(of("spray")),
         spray_rate_min |-> script_limit("min", of("spray")),
         spray_rate_max |-> script_limit("max", of("spray")),
         velocity_x_range |-> script_range(of("vel_x")),
         velocity_y_range |-> script_range(of("vel_y"))]

\* The "properties" of the collection: the metadata of the API under the
\* names of the script, then "gps" and "telemetry".
script_properties(api_metadata, points) ==
    LET start_ts == get(api_metadata, "start_timestamp")
        end_ts == get(api_metadata, "end_timestamp")
        seconds == script_duration_seconds(start_ts, end_ts)
    IN  [flight_record_number |-> get(api_metadata, "id"),
         serial_number |-> get(api_metadata, "serial_number"),
         hardware_id |-> get(api_metadata, "hardware_id"),
         date |-> get(api_metadata, "create_date"),
         start_datetime |-> script_datetime(start_ts).val,
         end_datetime |-> script_datetime(end_ts).val,
         duration_seconds |-> seconds,
         duration_minutes |-> script_duration_minutes(seconds),
         location |-> get(api_metadata, "location"),
         drone_type |-> get(api_metadata, "drone_type"),
         nickname |-> get(api_metadata, "nickname"),
         app_version |-> get(api_metadata, "app_version"),
         nozzle_type |-> get(api_metadata, "nozzle_type"),
         pilot_name |-> get(api_metadata, "flyer_name"),
         team_name |-> get(api_metadata, "team_name"),
         flight_height_m |-> get(api_metadata, "radar_height"),
         max_radar_height_m |-> get(api_metadata, "max_radar_height"),
         work_speed_ms |-> get(api_metadata, "work_speed"),
         max_flight_speed_ms |-> get(api_metadata, "max_flight_speed"),
         spray_width_m |-> get(api_metadata, "spray_width"),
         work_area_m2 |-> get(api_metadata, "new_work_area"),
         work_area_ha |-> script_scaled(api_metadata, "new_work_area", 10000).val,
         spray_usage_ml |-> get(api_metadata, "spray_usage"),
         spray_usage_L |-> script_scaled(api_metadata, "spray_usage", 1000).val,
         min_flow_speed_per_mu |-> get(api_metadata, "min_flow_speed_per_mu"),
         gps |-> script_gps(points),
         telemetry |-> script_telemetry(points),
         manual_mode |-> get(api_metadata, "manual_mode"),
         use_rtk |-> get(api_metadata, "use_rtk_flag") = Some(1)]

\* create_geojson_with_metadata(binary_data, api_metadata): None when no
\* pair is valid; the exception of a timestamp out of range or of a None
\* to divide; else the collection.
create_geojson_with_metadata(binary_data, api_metadata) ==
    LET points == valid_points(script_extract_all_values(binary_data))
        start_ts == get(api_metadata, "start_timestamp")
        end_ts == get(api_metadata, "end_timestamp")
    IN  IF points = <<>> THEN Ok(None)
        ELSE IF ~script_datetime(start_ts).ok \/ ~script_datetime(end_ts).ok
        THEN Raise("ValueError")
        ELSE IF ~script_scaled(api_metadata, "new_work_area", 10000).ok
                \/ ~script_scaled(api_metadata, "spray_usage", 1000).ok
        THEN Raise("TypeError")
        ELSE Ok(Some([type |-> "FeatureCollection",
                      name |-> [format |-> get(api_metadata, "id")],
                      properties |-> script_properties(api_metadata, points),
                      features |-> <<script_route_feature(points)>>
                                   \o script_point_features(points)]))

\* The script and the decoder are given the same bytes: after decode has
\* returned, create_geojson_with_metadata is called on them.
CreateGeojsonWithMetadata(api_metadata) ==
    /\ pc = "done"
    /\ geojson' = Append(geojson,
           [record |-> api_metadata,
            result |-> create_geojson_with_metadata(data, api_metadata)])
    /\ UNCHANGED <<intact, data, stack, all_values, pc, flight, last, collected>>
    /\ UNCHANGED <<calls, thread_vars>>

\* The metadata of the API: the id alone; every key the script reads; a
\* start in milliseconds; an area of None.
BareMetadata == "id" :> Some("id")

FullMetadata ==
    [id |-> Some("id"), serial_number |-> Some("serial"),
     hardware_id |-> Some("hardware"), create_date |-> Some("date"),
     start_timestamp |-> Some(Big(1700000000)),
     end_timestamp |-> Some(Big(1700000090)),
     location |-> Some("location"), drone_type |-> Some("drone"),
     nickname |-> Some("nickname"), app_version |-> Some("version"),
     nozzle_type |-> Some("nozzle"), flyer_name |-> Some("flyer"),
     team_name |-> Some("team"), radar_height |-> Some(FromSixteenths(48)),
     max_radar_height |-> Some(FromSixteenths(64)),
     work_speed |-> Some(FromSixteenths(80)),
     max_flight_speed |-> Some(FromSixteenths(96)),
     spray_width |-> Some(FromSixteenths(88)),
     new_work_area |-> Some(FromSixteenths(200000)),
     spray_usage |-> Some(FromSixteenths(40000)),
     min_flow_speed_per_mu |-> Some(FromSixteenths(16)),
     manual_mode |-> Some(0), use_rtk_flag |-> Some(1)]

MillisMetadata ==
    [FullMetadata EXCEPT !.start_timestamp = Some(<<0, 80, 21, 127, 60, 49>>)]

NoAreaMetadata == [FullMetadata EXCEPT !.new_work_area = None]

ApiMetadata == {BareMetadata, FullMetadata, MillisMetadata, NoAreaMetadata}

InitScript == InitFlight

NextScript ==
    \/ Next
    \/ \E api_metadata \in ApiMetadata :
           geojson = <<>> /\ CreateGeojsonWithMetadata(api_metadata)

SpecScript == InitScript /\ [][NextScript]_vars

-----------------------------------------------------------------------------
(* Properties.                                                             *)

Returned == pc = "done"
Branches ==
    {"depth", "end", "tag_at_end", "varint", "fixed64", "span", "span_break",
     "fixed32", "wire_type"}
\* Some statement of decode is ready to run.
CanStep == pc = "assemble" \/ \E b \in Branches : Takes(b)
TotalPoints == Len(flight[1].points)
Extracted == pc \in {"assemble", "done"}

\* C1: for every buffer decode returns a FlightData and no exception
\* escapes: the call is never left by an exception, it can always take a
\* step until it has returned, and what it returns has a point list no
\* longer than the latitude and longitude lists; cutting a buffer short
\* never adds points to what the whole buffer gives.
C1_DecodeNeverRaises ==
    /\ pc # "raised"
    /\ ~Returned => CanStep
    /\ Returned =>
          /\ flight # None
          /\ TotalPoints <= Len(bucket(all_values, 3, "dbl", 1))
          /\ TotalPoints <= Len(bucket(all_values, 3, "dbl", 2))
          /\ TotalPoints <= Len(decode(intact).val.points)

\* C1 witness: a message that gives one point was cut short, and decode
\* returned a FlightData with no point.
C1_Witness ==
    /\ Returned
    /\ data # intact
    /\ Len(decode(intact).val.points) = 1
    /\ TotalPoints = 0

\* C2: decoding the empty buffer gives an empty bucket map and a FlightData
\* with no points, bounds None and every telemetry statistic None.
C2_EmptyBuffer ==
    (data = <<>> /\ Extracted) =>
        /\ DOMAIN all_values = {}
        /\ Returned =>
              /\ flight[1].points = <<>>
              /\ flight[1].bounds = None
              /\ \A k \in DOMAIN flight[1].telemetry[1] :
                     flight[1].telemetry[1][k] = None

\* C2 witness: decode of the empty buffer has returned.
C2_Witness == data = <<>> /\ Returned /\ flight # None

\* The innermost call is about to read a value that runs past the end of
\* its buffer: a varint whose last available byte has 0x80 set, or a fixed
\* value with fewer than 8 / 4 bytes left.
ReadsPastEnd ==
    /\ pc = "extract"
    /\ stack # <<>>
    /\ LET f == Top
           tag == read_tag(f)
       IN  \/ /\ branch(f) = "varint"
              /\ decode_varint(f.buf, tag.pos).pos = Len(f.buf)
              /\ f.buf[Len(f.buf)] >= 128
           \/ branch(f) = "fixed64" /\ tag.pos + 8 > Len(f.buf)
           \/ branch(f) = "fixed32" /\ tag.pos + 4 > Len(f.buf)

\* The step just taken left the loop of the call it was taken in, or left
\* it with nothing more to read.
LevelStops ==
    \/ Len(stack') < Len(stack)
    \/ /\ Len(stack') = Len(stack)
       /\ stack'[Len(stack')].pos >= Len(stack'[Len(stack')].buf)

\* C3 (as claimed): a varint, fixed32 or fixed64 value that runs past the
\* end of the buffer is the end of the stream: no value is recorded for the
\* field and collection at that recursion level stops.
C3_PastEndRecordsNothing ==
    [][ReadsPastEnd => (all_values' = all_values /\ LevelStops)]_vars

\* C3, what the code does keep of the claim: collection at the level stops
\* after such a read, and a fixed-width field cut short records nothing.
C3_PastEndStopsLevel ==
    [][ReadsPastEnd =>
          /\ LevelStops
          /\ branch(Top) \in {"fixed64", "fixed32"} => all_values' = all_values]_vars

IsPrefix(a, b) == Len(a) <= Len(b) /\ a = SubSeq(b, 1, Len(a))

\* Every list of a is the beginning of the list b has under the same key.
BucketsContained(a, b) ==
    \A key \in DOMAIN a : key \in DOMAIN b /\ IsPrefix(a[key], b[key])

RECURSIVE SumPos(_)
\* The offset in the outermost buffer of the cursor of the innermost call.
SumPos(stk) == IF stk = <<>> THEN 0 ELSE stk[1].pos + SumPos(Tail(stk))

RECURSIVE kept_values(_, _, _, _, _)
\* The values parse_recursive collects on a whole buffer from the fields
\* that end at or before offset k: counted by the end of the field itself
\* (nested), or by the end of the outermost field that holds it.
kept_values(stk, vals, kept, k, nested) ==
    IF stk = <<>> THEN kept
    ELSE LET r == parse_step(stk, vals)
             field_end == IF nested THEN SumPos(r.stack)
                          ELSE IF Len(stk) = 1 THEN r.stack[1].pos
                          ELSE stk[1].pos + stk[1].length
             reads == Len(r.stack) = Len(stk)
         IN  kept_values(r.stack, r.vals,
                 IF reads /\ field_end <= k
                 THEN parse_step(stk, kept).vals ELSE kept,
                 k, nested)

ValuesBeforeCut(nested) ==
    kept_values(<<Frame(intact, 0)>>, <<>>, <<>>, Len(data), nested)

\* C4: when a buffer is cut short, inside a varint or inside a
\* length-delimited span, collection does not raise and the result still
\* holds, in their order, all values of the complete fields that precede the
\* field the cut falls in.
C4_KeepsCompleteFields ==
    /\ pc # "raised"
    /\ Extracted => BucketsContained(ValuesBeforeCut(FALSE), all_values)

\* What lies inside the span the cut falls in goes with the span: the
\* values of the nested fields that end before the cut are not all kept.
KeepsNestedBeforeCut ==
    Extracted => BucketsContained(ValuesBeforeCut(TRUE), all_values)

\* C4 witness: a buffer cut inside a span, after whole fields whose values
\* the result holds and after nested fields whose values went with the span.
C4_Witness ==
    /\ Returned
    /\ data # intact
    /\ DOMAIN ValuesBeforeCut(FALSE) # {}
    /\ BucketsContained(ValuesBeforeCut(FALSE), all_values)
    /\ ~BucketsContained(ValuesBeforeCut(TRUE), all_values)

\* The innermost call is at a length-delimited field.
AtSpan == pc = "extract" /\ stack # <<>> /\ branch(Top) \in {"span", "span_break"}

\* C5: a length-delimited field ends its level only when pos + length is
\* beyond the buffer; otherwise, a length of 0 included, the span goes to a
\* nested call at depth + 1 and the level goes on at pos + length.
C5_SpanStopsOnlyWhenTooLong ==
    [][AtSpan =>
        LET f == Top
            length == decode_varint(f.buf, read_tag(f).pos)
            pos == length.pos
            too_long == Len(length.val) > 4 \/ pos + ToNat(length.val) > Len(f.buf)
        IN  IF too_long
            THEN stack' = return_to_caller(stack)
            ELSE /\ Len(stack') = Len(stack) + 1
                 /\ innermost(stack').depth = f.depth + 1
                 /\ innermost(stack').buf =
                        py_slice(f.buf, pos, pos + ToNat(length.val))
                 /\ stack'[Len(stack)].pos + stack'[Len(stack)].length =
                        pos + ToNat(length.val)]_vars

\* C6: a tag of wire type 3, 4, 6 or 7 ends the call it is read in and no
\* other: the values recorded so far stay, and the caller goes on at the
\* byte after the span.
C6_UnsupportedWireTypeStopsItsLevel ==
    [][Takes("wire_type") =>
        /\ all_values' = all_values
        /\ Len(stack') = Len(stack) - 1
        /\ \A i \in 1..Len(stack') :
              /\ stack'[i].buf = stack[i].buf
              /\ stack'[i].depth = stack[i].depth
              /\ stack'[i].pos = IF i < Len(stack') THEN stack[i].pos
                                 ELSE stack[i].pos + stack[i].length]_vars

\* C6 witness: a group-start tag between int_3 and int_2, two levels down;
\* the two outer levels hold both their fields, the innermost only int_3.
C6_Witness ==
    /\ Returned
    /\ data = Nest(<<11, 0>>, WithSiblings, 2)
    /\ bucket(all_values, 2, "int", 3) = <<Big(300)>>
    /\ bucket(all_values, 2, "int", 2) = <<>>
    /\ \A d \in 0..1 : /\ bucket(all_values, d, "int", 3) = <<Big(300)>>
                        /\ bucket(all_values, d, "int", 2) = <<Big(1)>>

\* The encoding of each sample.
Encodings == [n \in VarintSamples |-> encode_varint(n)]

\* C7: the varint encoding of n decoded from position 0 gives n and the
\* length of the encoding.
C7_VarintRoundTrip ==
    (last.op = "tag_at_end" /\ last.at = 0 /\ last.depth = 0) =>
        \A n \in VarintSamples :
            data = Encodings[n]
            => (ToNat(last.tag) = n /\ last.new_pos = Len(Encodings[n]))

C7_Witness ==
    /\ data = encode_varint(MaxVarint)
    /\ last.op = "tag_at_end"
    /\ ToNat(last.tag) = MaxVarint
    /\ last.new_pos = 2

\* The buckets with every depth raised by n.
Deeper(vals, n) ==
    [key \in {<<k[1] + n, k[2], k[3]>> : k \in DOMAIN vals} |->
        vals[<<key[1] - n, key[2], key[3]>>]]

\* The scalar fields that are recorded when alone, and each under N levels
\* of length-delimited fields.
RecordedFields == {f \in ScalarFields : DOMAIN extract_all_values(f) # {}}
Nested == [f \in RecordedFields, N \in 0..max_depth |-> Nest(f, Alone, N)]

\* C8: a scalar field under N <= max_depth levels of length-delimited
\* fields is recorded at depth N and at no other depth.
C8_DepthIsNesting ==
    Extracted =>
        \A f \in RecordedFields, N \in 0..max_depth :
            data = Nested[f, N]
            => /\ all_values = Deeper(extract_all_values(f), N)
               /\ \A key \in DOMAIN all_values : key[1] = N

C8_Witness ==
    /\ Extracted
    /\ data = Nest(<<16, 172, 2>>, Alone, max_depth)
    /\ DOMAIN all_values = {<<max_depth, "int", Big(2)>>}
    /\ all_values[<<max_depth, "int", Big(2)>>] = <<Big(300)>>

\* The innermost call is at a whole varint of 1e15 or more, or at a whole
\* fixed64 or fixed32 value of magnitude 1e10 or more.
AtOversized ==
    /\ pc = "extract"
    /\ stack # <<>>
    /\ LET f == Top
           at == read_tag(f).pos
           v == decode_varint(f.buf, at)
           d == unpack_d(py_slice(f.buf, at, at + 8))
           s == unpack_f(py_slice(f.buf, at, at + 4))
       IN  \/ /\ branch(f) = "varint"
              /\ f.buf[v.pos] < 128
              /\ ~BigLt(v.val, I_1e15)
           \/ /\ branch(f) = "fixed64"
              /\ d.ok /\ ~IsNaN(d.val) /\ ~MagLt(d.val, F_1e10)
           \/ /\ branch(f) = "fixed32"
              /\ s.ok /\ ~IsNaN(s.val) /\ ~MagLt(s.val, F_1e10)

\* The end of the field the innermost call is at.
FieldEnd ==
    LET f == Top
        at == read_tag(f).pos
    IN  IF branch(f) = "varint" THEN decode_varint(f.buf, at).pos
        ELSE IF branch(f) = "fixed64" THEN at + 8
        ELSE at + 4

\* C10: a varint of 1e15 or more, a fixed64 or fixed32 value of magnitude
\* 1e10 or more, is appended to no bucket; the cursor moves past the field
\* and the call goes on.
C10_GuardsDiscardWithoutStopping ==
    [][AtOversized =>
        /\ all_values' = all_values
        /\ Len(stack') = Len(stack)
        /\ innermost(stack').pos = FieldEnd
        /\ innermost(stack').buf = Top.buf]_vars

\* C10 witness: the double 1e10 between int_3 and int_2; both are
\* recorded, no double is.
C10_Witness ==
    /\ Returned
    /\ \E f \in ScalarFields :
          /\ f[1] = 9
          /\ unpack_d(Tail(f)).val = F_1e10
          /\ data = Nest(f, WithSiblings, 0)
    /\ DOMAIN all_values = {<<0, "int", Big(3)>>, <<0, "int", Big(2)>>}

\* The innermost call of parse_protobuf_full is at a length-delimited field
\* whose span lies within the buffer and decodes as UTF-8 to printable
\* characters only.
AtPrintableSpan ==
    /\ pc = "parse_full"
    /\ stack # <<>>
    /\ full_branch(Top) \in {"span", "span_break"}
    /\ LET length == decode_varint(Top.buf, read_tag(Top).pos)
       IN  /\ SpanInBounds(length.val, length.pos, Top.buf)
           /\ LET text == utf8_decode(py_slice(Top.buf, length.pos,
                              length.pos + ToNat(length.val)))
              IN  text.ok /\ isprintable(text.val)

\* The step records the span as a string under its field number and also
\* starts the nested parse of the same span at depth + 1.
RecordsStringAndParses ==
    LET f == Top
        length == decode_varint(f.buf, read_tag(f).pos)
        sub_data == py_slice(f.buf, length.pos, length.pos + ToNat(length.val))
    IN  /\ Len(collected'.strings) = Len(collected.strings) + 1
        /\ LET e == collected'.strings[Len(collected'.strings)]
           IN  /\ e.field = field_number(read_tag(f).val)
               /\ e.value = utf8_decode(sub_data).val
        /\ SubSeq(collected'.strings, 1, Len(collected.strings)) = collected.strings
        /\ Len(stack') = Len(stack) + 1
        /\ innermost(stack').buf = sub_data
        /\ innermost(stack').depth = f.depth + 1

\* C9: every span within the buffer that decodes as UTF-8 to printable
\* characters only is recorded in the string bucket under its field number,
\* and the same span is also parsed as a nested message at depth + 1.
C9_SpanIsStringAndMessage ==
    [][AtPrintableSpan => RecordsStringAndParses]_vars

\* What parse_protobuf_full does: the span of length 0 ends the level with
\* no string and no nested parse; every other such span is recorded and
\* parsed; a span that is not printable text is parsed and adds no string.
NonEmptySpanIsStringAndMessage ==
    [][/\ (AtPrintableSpan /\ TakesFull("span")) => RecordsStringAndParses
       /\ (AtPrintableSpan /\ TakesFull("span_break")) =>
              /\ collected' = collected
              /\ Len(stack') = Len(stack) - 1
       /\ (TakesFull("span") /\ ~AtPrintableSpan) =>
              /\ collected' = collected
              /\ Len(stack') = Len(stack) + 1]_vars

\* parse_recursive of ProtobufDecoder has no string bucket: its keys are
\* int_, dbl_ and flt_ keys.
DecoderKeepsNoStrings ==
    \A key \in DOMAIN all_values : key[2] \in {"int", "dbl", "flt"}

\* The key and the value of the scalar field the innermost call is at.
FieldKey ==
    LET b == branch(Top)
    IN  <<Top.depth,
          IF b = "varint" THEN "int" ELSE IF b = "fixed64" THEN "dbl" ELSE "flt",
          field_number(read_tag(Top).val)>>

FieldValue ==
    LET b == branch(Top)
        at == read_tag(Top).pos
    IN  IF b = "varint" THEN decode_varint(Top.buf, at).val
        ELSE IF b = "fixed64" THEN unpack_d(py_slice(Top.buf, at, at + 8)).val
        ELSE unpack_f(py_slice(Top.buf, at, at + 4)).val

\* C11: buckets only grow, and at their end: a step of the walk leaves
\* every bucket as it is, or puts the value of the field under the cursor
\* after all the values its bucket holds; so each bucket lists its values
\* in the order the depth-first, left-to-right walk meets their fields.
C11_BucketsAppendOnly ==
    [][\/ all_values' = all_values
       \/ /\ Takes("varint") \/ Takes("fixed64") \/ Takes("fixed32")
          /\ DOMAIN all_values' = DOMAIN all_values \cup {FieldKey}
          /\ \A key \in DOMAIN all_values \ {FieldKey} :
                all_values'[key] = all_values[key]
          /\ all_values'[FieldKey] =
                Append(IF FieldKey \in DOMAIN all_values
                       THEN all_values[FieldKey] ELSE <<>>, FieldValue)]_vars

\* C11 witness: int_2 = 300 met before int_2 = 1 at the same depth.
C11_Witness ==
    /\ Returned
    /\ data = Nest(<<16, 172, 2>>, WithSiblings, 0)
    /\ bucket(all_values, 0, "int", 2) = <<Big(300), Big(1)>>

\* The FlightData decode has returned, and the six lists it read.
Points == flight[1].points
Raw(kind, n) ==
    LET key == <<3, kind, Big(n)>>
    IN  IF key \in DOMAIN all_values THEN all_values[key] ELSE <<>>
RawLat == Raw("dbl", 1)
RawLon == Raw("dbl", 2)
PairCount == IF Len(RawLat) < Len(RawLon) THEN Len(RawLat) ELSE Len(RawLon)

\* lo < v < hi, and its contrary v < lo or hi < v.
Inside(v, lo, hi) == FloatLt(lo, v) /\ FloatLt(v, hi)
Outside(v, lo, hi) == IsNaN(v) \/ FloatLt(v, lo) \/ FloatLt(hi, v)

\* The raw indices whose latitude and longitude are both inside the box,
\* and the j-th of them, j from 0.
Accepted ==
    {i \in 0..(PairCount - 1) :
        /\ Inside(RawLat[i + 1], lat_min, lat_max)
        /\ Inside(RawLon[i + 1], lon_min, lon_max)}
Origin(j) ==
    CHOOSE i \in Accepted : Cardinality({k \in Accepted : k < i}) = j

\* C12: every point decode returns has its latitude inside the configured
\* latitude range and its longitude inside the configured longitude range.
C12_PointsInsideBox ==
    Returned =>
        \A j \in 1..Len(Points) :
            /\ Inside(Points[j].latitude, lat_min, lat_max)
            /\ Inside(Points[j].longitude, lon_min, lon_max)

\* C12 witness: two points returned where three pairs were read.
C12_Witness ==
    /\ Returned
    /\ Len(Points) = 2
    /\ PairCount = 3

\* C13: the j-th point returned has index j, and the points are those of
\* the accepted raw indices in increasing order.
C13_PointsReindexed ==
    Returned =>
        /\ Len(Points) = Cardinality(Accepted)
        /\ \A j \in 0..(Len(Points) - 1) :
              /\ Points[j + 1].index = j
              /\ Points[j + 1].latitude = RawLat[Origin(j) + 1]
              /\ Points[j + 1].longitude = RawLon[Origin(j) + 1]

\* C13 witness: the raw indices 0 and 2 accepted, with different
\* coordinates, as the points 0 and 1.
C13_Witness ==
    /\ Returned
    /\ Accepted = {0, 2}
    /\ Points[2].index = 1
    /\ Points[1].latitude # Points[2].latitude
    /\ Points[2].latitude = RawLat[3]

\* C14: with n the length of the shorter of the latitude and longitude
\* lists, each raw index below n gives one point when both its coordinates
\* are inside the box and none otherwise; the point pairs the latitude and
\* the longitude of that one index; what the longer list holds beyond n
\* gives nothing, and equal coordinates at two indices give two points.
C14_JointValidity ==
    Returned =>
        /\ Len(Points) = Cardinality(Accepted)
        /\ \A i \in 0..(PairCount - 1) :
              LET from_i == {j \in 0..(Len(Points) - 1) : Origin(j) = i}
                  both == /\ Inside(RawLat[i + 1], lat_min, lat_max)
                          /\ Inside(RawLon[i + 1], lon_min, lon_max)
              IN  /\ Cardinality(from_i) = IF both THEN 1 ELSE 0
                  /\ \A j \in from_i :
                        <<Points[j + 1].latitude, Points[j + 1].longitude>>
                            = <<RawLat[i + 1], RawLon[i + 1]>>

\* C14 witness: a pair with the latitude outside the box, then two accepted
\* pairs with the same coordinates, and a latitude with no longitude.
C14_Witness ==
    /\ Returned
    /\ Len(RawLat) = 4
    /\ Len(RawLon) = 3
    /\ Accepted = {1, 2}
    /\ Inside(RawLon[1], lon_min, lon_max)
    /\ Len(Points) = 2
    /\ Points[1].latitude = Points[2].latitude
    /\ Points[1].longitude = Points[2].longitude

\* The field v of the point accepted at raw index i is taken from entry i
\* of its own list: unset when the list has no entry i or the entry is out
\* of the range lo..hi, the rounded entry when it is within, and in no case
\* anything else.
TakenAt(v, raw, i, lo, hi) ==
    IF i >= Len(raw) THEN v = None
    ELSE /\ v \in {None, Some(round2(raw[i + 1]))}
         /\ Inside(raw[i + 1], lo, hi) => v # None
         /\ Outside(raw[i + 1], lo, hi) => v = None

\* C15: the heading, the velocities and the spray rate of the point
\* accepted at raw index i come from entry i of their own lists; a list
\* with no entry i, or an entry i out of range, leaves the field unset and
\* the point is returned all the same.
C15_TelemetryByRawIndex ==
    Returned =>
        /\ Len(Points) = Cardinality(Accepted)
        /\ \A j \in 0..(Len(Points) - 1) :
              LET i == Origin(j)
                  p == Points[j + 1]
              IN  /\ TakenAt(p.heading, Raw("dbl", 3), i, Neg(F_180), F_180)
                  /\ TakenAt(p.velocity_x, Raw("flt", 1), i, Neg(F_30), F_30)
                  /\ TakenAt(p.velocity_y, Raw("flt", 2), i, Neg(F_30), F_30)
                  /\ TakenAt(p.spray_rate, Raw("flt", 3), i, F_0, F_50)

\* C15 witness: the point 0 accepted at raw index 1 has the velocity_x of
\* entry 1, no velocity_y for want of an entry 1, and no heading because
\* entry 1 is out of range.
C15_Witness ==
    /\ Returned
    /\ Accepted = {1, 2}
    /\ Len(Raw("flt", 1)) = 2
    /\ Points[1].velocity_x = Some(round2(Raw("flt", 1)[2]))
    /\ Raw("flt", 1)[1] # Raw("flt", 1)[2]
    /\ Len(Raw("flt", 2)) = 1
    /\ Points[1].velocity_y = None
    /\ Len(Raw("dbl", 3)) = 2
    /\ Outside(Raw("dbl", 3)[2], Neg(F_180), F_180)
    /\ Points[1].heading = None

\* lo <= v <= hi
Within(v, lo, hi) == FloatLe(lo, v) /\ FloatLe(v, hi)

\* The entry i of a list is attached to the point whenever it lies in
\* lo..hi, the limits included.
AttachedAt(v, raw, i, lo, hi) ==
    (i < Len(raw) /\ Within(raw[i + 1], lo, hi)) => v = Some(round2(raw[i + 1]))

\* C16: a value at an accepted index is attached to the point whenever it
\* lies in its range, the limits included: spray rate in 0..50, velocity
\* in -30..30, heading in -180..180.
C16_RangesIncludeLimits ==
    Returned =>
        /\ Len(Points) = Cardinality(Accepted)
        /\ \A j \in 0..(Len(Points) - 1) :
              LET i == Origin(j)
                  p == Points[j + 1]
              IN  /\ AttachedAt(p.heading, Raw("dbl", 3), i, Neg(F_180), F_180)
                  /\ AttachedAt(p.velocity_x, Raw("flt", 1), i, Neg(F_30), F_30)
                  /\ AttachedAt(p.velocity_y, Raw("flt", 2), i, Neg(F_30), F_30)
                  /\ AttachedAt(p.spray_rate, Raw("flt", 3), i, F_0, F_50)

\* What decode does at the limits: the heading range includes its limits,
\* the velocity and spray ranges do not.
LimitsOfHeadingOnly ==
    Returned =>
        /\ Len(Points) = Cardinality(Accepted)
        /\ \A j \in 0..(Len(Points) - 1) :
              LET i == Origin(j)
                  p == Points[j + 1]
                  limit(raw, lo, hi) == i < Len(raw) /\ raw[i + 1] \in {lo, hi}
              IN  /\ AttachedAt(p.heading, Raw("dbl", 3), i, Neg(F_180), F_180)
                  /\ limit(Raw("flt", 1), Neg(F_30), F_30) => p.velocity_x = None
                  /\ limit(Raw("flt", 2), Neg(F_30), F_30) => p.velocity_y = None
                  /\ limit(Raw("flt", 3), F_0, F_50) => p.spray_rate = None

\* The six keys decode reads, and the buckets under them.
MatchedKeys ==
    {<<3, "dbl", Big(n)>> : n \in 1..3} \cup {<<3, "flt", Big(n)>> : n \in 1..3}
Matched(vals) == [key \in DOMAIN vals \cap MatchedKeys |-> vals[key]]

\* C17: what is collected at another depth than 3, or at depth 3 under
\* another key than dbl_1, dbl_2, dbl_3, flt_1, flt_2, flt_3, has no part in
\* the result: decode returns what the six buckets alone give, so buffers
\* that agree on them decode to the same points, bounds and telemetry.
C17_UnmatchedBucketsIgnored ==
    Returned => flight[1] = flight_data(Matched(all_values)).val

\* C17 witness: points returned from a buffer that also holds coordinates
\* at another depth and an integer at depth 3.
C17_Witness ==
    /\ Returned
    /\ Len(Points) >= 2
    /\ \E key \in DOMAIN all_values : key[1] = 4 /\ key[2] = "dbl" /\ key[3] = Big(1)
    /\ \E key \in DOMAIN all_values : key[1] = 3 /\ key[2] = "int"
    /\ \E key \in DOMAIN all_values : key[1] < 3


\* The bounds and the telemetry the decode stored.
Bounds == flight[1].bounds
Summary == flight[1].telemetry[1]

\* C18: after decode, bounds is None if and only if there are zero points;
\* otherwise every point lies between the limits in latitude and in longitude,
\* each of the four limits is the coordinate of some point, and center_lat
\* and center_lon are the midpoints (min + max) / 2 of the limits, which is
\* not the mean of the points.
C18_BoundsEncloseAndCenter ==
    Returned =>
        /\ Bounds = None <=> Points = <<>>
        /\ Bounds # None =>
            LET b == Bounds[1]
                among(v, field) == \E i \in 1..Len(Points) : Points[i][field] = v
            IN  /\ \A i \in 1..Len(Points) :
                    /\ FloatLe(b.lat_min, Points[i].latitude)
                    /\ FloatLe(Points[i].latitude, b.lat_max)
                    /\ FloatLe(b.lon_min, Points[i].longitude)
                    /\ FloatLe(Points[i].longitude, b.lon_max)
                /\ among(b.lat_min, "latitude") /\ among(b.lat_max, "latitude")
                /\ among(b.lon_min, "longitude") /\ among(b.lon_max, "longitude")
                /\ IsSixteenths(center_lat(b))
                /\ 2 * ToSixteenths(center_lat(b))
                       = ToSixteenths(b.lat_min) + ToSixteenths(b.lat_max)
                /\ IsSixteenths(center_lon(b))
                /\ 2 * ToSixteenths(center_lon(b))
                       = ToSixteenths(b.lon_min) + ToSixteenths(b.lon_max)

\* Three points of three latitudes whose midpoint of the limits is not
\* their mean.
C18_Witness ==
    /\ Returned
    /\ Len(Points) = 3
    /\ Bounds # None
    /\ Bounds[1].lat_min # Bounds[1].lat_max
    /\ Bounds[1].lon_min # Bounds[1].lon_max
    /\ 3 * ToSixteenths(center_lat(Bounds[1]))
           # ToSixteenths(Points[1].latitude) + ToSixteenths(Points[2].latitude)
             + ToSixteenths(Points[3].latitude)

\* The points that contribute a value to a signal.
HasHeading(p) == p.heading # None
HasSpeed(p) == p.velocity_x # None /\ p.velocity_y # None
HasSpray(p) == p.spray_rate # None

\* C19: calculate_telemetry never raises, and each statistic of a signal
\* (heading, speed, spray rate) is None exactly when no point contributes a
\* defined value for that signal, so that on an empty point list every field
\* of the summary is None, never 0.
C19_TelemetryNoneWithoutValues ==
    /\ pc # "raised"
    /\ Returned =>
        LET none(Has(_)) == SelectSeq(Points, Has) = <<>>
        IN  /\ \A k \in {"heading_avg", "heading_min", "heading_max"} :
                Summary[k] = None <=> none(HasHeading)
            /\ \A k \in {"speed_avg_ms", "speed_max_ms"} :
                Summary[k] = None <=> none(HasSpeed)
            /\ \A k \in {"spray_rate_avg", "spray_rate_min", "spray_rate_max"} :
                Summary[k] = None <=> none(HasSpray)
            /\ Points = <<>> => \A k \in DOMAIN Summary : Summary[k] = None

\* Several points contribute headings while none contributes a spray rate.
C19_Witness ==
    /\ Returned
    /\ Len(Points) >= 2
    /\ Summary.heading_avg # None
    /\ Summary.spray_rate_avg = None
    /\ Summary.spray_rate_min = None
    /\ Summary.spray_rate_max = None

\* The speeds the speed statistics are taken of.
SpeedsTaken ==
    IF Summary.speed_avg_ms = None THEN <<>> ELSE Summary.speed_avg_ms[1].of

\* Speed comes of complete velocity pairs only: a point without both
\* components has no speed and contributes none to the speed statistics.
SpeedOnlyOfCompletePairs ==
    Returned =>
        /\ \A i \in 1..Len(Points) : speed_ms(Points[i]) = None <=> ~HasSpeed(Points[i])
        /\ Len(SpeedsTaken) = Len(SelectSeq(Points, HasSpeed))
        /\ Summary.speed_max_ms = None <=> Summary.speed_avg_ms = None
        /\ Summary.speed_max_ms # None => Summary.speed_max_ms[1].of = SpeedsTaken

\* The Euclidean norm of a pair: the root of the sum of the squares.
EuclideanNorm(vx, vy) == float_sqrt(float_add(float_square(vx), float_square(vy)))

\* C20: speed is derived only from complete velocity pairs: a point's
\* speed_ms is None unless both velocity_x and velocity_y are set, such a
\* point does not contribute to the speed statistics, and when both are set
\* speed_ms is the Euclidean norm of the pair (3 and 4 give exactly 5).
C20_SpeedIsEuclideanNorm ==
    /\ SpeedOnlyOfCompletePairs
    /\ Returned =>
        LET pairs == SelectSeq(Points, HasSpeed)
        IN  \A i \in 1..Len(pairs) :
                SpeedsTaken[i] = EuclideanNorm(pairs[i].velocity_x[1],
                                               pairs[i].velocity_y[1])

\* What holds of the code: speed_ms is the norm rounded to two decimals.
SpeedIsRoundedNorm ==
    Returned =>
        LET pairs == SelectSeq(Points, HasSpeed)
        IN  \A i \in 1..Len(pairs) :
                SpeedsTaken[i] = round2(EuclideanNorm(pairs[i].velocity_x[1],
                                                      pairs[i].velocity_y[1]))

\* The pair 3, 4 has the speed 5.0 exactly.
ThreeFourFive ==
    Returned =>
        LET pairs == SelectSeq(Points, HasSpeed)
        IN  \A i \in 1..Len(pairs) :
                (/\ ToSixteenths(pairs[i].velocity_x[1]) = 48
                 /\ ToSixteenths(pairs[i].velocity_y[1]) = 64)
                => SpeedsTaken[i] = Dbl(0, 1025, 262144, 0, 0)


\* The outcomes of the calls of to_geojson that returned.
Collections == {geojson[i].result.val : i \in {j \in 1..Len(geojson) : geojson[j].result.ok}}

\* C21: for a FlightData with N points, N >= 0, to_geojson produces exactly
\* N + 1 features: feature 0 is a LineString with exactly N coordinate pairs
\* and the property total_points = N, and N Point features follow it.
C21_FeaturesPerPoint ==
    /\ \A i \in 1..Len(geojson) : geojson[i].record = None => geojson[i].result.ok
    /\ \A c \in Collections :
        LET N == Len(Points)
        IN  /\ Len(c.features) = N + 1
            /\ c.features[1].geometry.type = "LineString"
            /\ Len(c.features[1].geometry.coordinates) = N
            /\ c.features[1].properties.total_points = N
            /\ \A k \in 2..(N + 1) : c.features[k].geometry.type = "Point"

\* to_geojson returned for a FlightData of two points, one without heading.
C21_Witness ==
    /\ Collections # {}
    /\ Len(Points) = 2
    /\ \E i \in 1..2 : Points[i].heading = None

\* C22: for every k in 1..N, feature k is the Point built from points[k-1],
\* its coordinates are [longitude, latitude] in that order, and they are the
\* (k-1)-th coordinate pair of the LineString in feature 0.
C22_PointsInOrder ==
    \A c \in Collections :
        \A k \in 1..Len(Points) :
            LET p == Points[k]
                f == c.features[k + 1]
            IN  /\ f.properties.index = p.index
                /\ f.properties.index = k - 1
                /\ f.properties.latitude = p.latitude
                /\ f.properties.longitude = p.longitude
                /\ f.properties.heading = p.heading
                /\ f.properties.velocity_x = p.velocity_x
                /\ f.properties.velocity_y = p.velocity_y
                /\ f.properties.spray_rate = p.spray_rate
                /\ f.geometry.coordinates[1] = p.longitude
                /\ f.geometry.coordinates[2] = p.latitude
                /\ f.geometry.coordinates = c.features[1].geometry.coordinates[k]

\* to_geojson returned for two points that differ in latitude and longitude.
C22_Witness ==
    /\ Collections # {}
    /\ Len(Points) = 2
    /\ Points[1].latitude # Points[2].latitude
    /\ Points[1].longitude # Points[2].longitude

\* The keys to_geojson sets without a record.
OwnKeys == {"record_id", "total_points", "gps", "telemetry"}

\* Two outcomes agree on the features and on what to_geojson itself put in
\* the properties.
SameButMetadata(a, b) ==
    /\ a.features = b.features
    /\ a.type = b.type
    /\ a.name = b.name
    /\ DOMAIN a.properties \cap OwnKeys = DOMAIN b.properties \cap OwnKeys
    /\ \A k \in DOMAIN a.properties \cap OwnKeys : a.properties[k] = b.properties[k]

\* The outcomes of to_geojson on this FlightData differ in the keys a
\* record added only.
AttachOnly ==
    \A i, j \in 1..Len(geojson) :
        (geojson[i].result.ok /\ geojson[j].result.ok) =>
            LET a == geojson[i].result.val
                b == geojson[j].result.val
            IN  /\ SameButMetadata(a, b)
                /\ geojson[i].record = None =>
                    /\ DOMAIN a.properties \subseteq OwnKeys
                    /\ DOMAIN a.properties \subseteq DOMAIN b.properties

\* C23: to_geojson with a record and without one yields identical feature
\* lists and identical gps and telemetry entries; the record only adds
\* top-level property keys, and to_geojson leaves the points, bounds and
\* telemetry of the FlightData unchanged.
C23_MetadataAttachOnly ==
    [][geojson' # geojson => (flight' = flight /\ AttachOnly')]_vars

\* to_geojson returned without a record and with one, for a FlightData that
\* has points, and so bounds.
C23_Witness ==
    /\ Len(geojson) = 2
    /\ geojson[1].record = None
    /\ geojson[2].record = Some(FullRecord)
    /\ geojson[2].result.ok
    /\ Len(Points) >= 1
    /\ "gps" \in DOMAIN geojson[2].result.val.properties
    /\ "serial_number" \in DOMAIN geojson[2].result.val.properties

\* A record whose start is in milliseconds makes to_geojson raise.
MillisecondsRaise ==
    \A i \in 1..Len(geojson) :
        geojson[i].result.ok <=> geojson[i].record # Some(MillisRecord)

\* The FlightData of each of the buffers, from the call that runs alone.
Alone_decoded == [buf \in CallBuffers |-> decode(buf)]

\* C24: the result of decode depends on the buffer and the configuration
\* only: a call returns what decode gives for its buffer when it runs alone,
\* whatever other calls on the same ProtobufDecoder ran before it or take
\* their steps between its own, so that two calls on one buffer return equal
\* FlightData.
C24_DecodeIsolated ==
    /\ \A c \in DOMAIN calls :
        /\ calls[c].pc # "raised"
        /\ calls[c].pc = "done" =>
            calls[c].flight = Some(Alone_decoded[calls[c].data].val)
    /\ \A c, o \in DOMAIN calls :
        (calls[c].pc = "done" /\ calls[o].pc = "done" /\ calls[c].data = calls[o].data)
            => calls[c].flight = calls[o].flight

\* Two calls whose steps were interleaved returned, one with a point and one
\* with none.
C24_Witness ==
    /\ calls # <<>>
    /\ \A c \in Callers : calls[c].pc = "done" /\ calls[c].overlapped
    /\ calls["a"].flight[1].points # <<>>
    /\ calls["b"].flight[1].points = <<>>

\* C25: every function submitted through execute runs on one and the same
\* worker thread, the thread on which the browser was initialised, for every
\* sequence of start, stop and execute calls from any number of threads.
C25_OneWorkerThread ==
    /\ Cardinality(trace.ran_on) <= 1
    /\ playwright # None => trace.ran_on \subseteq {playwright[1]}

\* While no stop is called all functions run on the first worker.
OneWorkerWithoutStop ==
    (\A t \in Threads : threads[t].within # "stop") /\ Len(workers) <= 1
        => Cardinality(trace.ran_on) <= 1

\* C26: every call of execute returns the result, or raises the exception,
\* of the function it submitted in the end, given that the function ends;
\* also a call made after stop or racing with stop.
C26_ExecuteReturns ==
    \A t \in Threads : (threads[t].within = "execute") ~> (threads[t].within # "execute")

\* A worker ends on the sentinel only when _running is False.
SentinelEndsStoppedWorker ==
    [][\A w \in DOMAIN workers :
        (workers[w].pc = "get" /\ workers'[w].pc = "dead") => ~running]_vars

\* No function is being run while another one is.
OneFunctionAtATime == Cardinality({w \in DOMAIN workers : workers[w].pc = "run"}) <= 1

\* At most one worker has not ended.
OneLiveWorker == Cardinality({w \in DOMAIN workers : Alive(w)}) <= 1

\* The results a thread is given are those of the function it submitted.
OwnOutcome ==
    \A t \in Threads :
        \A i \in 1..Len(threads[t].result_queue) :
            /\ threads[t].result_queue[i].by = t
            /\ threads[t].result_queue[i].func = Function(t)
            /\ threads[t].pc = "execute_wait"

\* A worker that takes a task takes the one enqueued first of those not
\* yet taken.
TakenInOrder ==
    \A w \in DOMAIN workers :
        (workers[w].pc = "get" /\ workers'[w].pc = "run")
            => workers'[w].task[1] = Head(trace.pending)

\* C27: at any time at most one submitted function is being executed, at
\* most one live worker consumes the task queue, also across stop followed
\* by start, tasks are executed in the order they were enqueued, and each
\* caller receives the outcome of its own function only.
C27_SerialExecution ==
    [][OneFunctionAtATime' /\ OneLiveWorker' /\ TakenInOrder /\ OwnOutcome']_vars

\* What holds of the code: the order of the queue and the own outcome.
OrderAndOutcome == [][TakenInOrder /\ OwnOutcome']_vars

\* No bucket is keyed by a depth above max_depth.
DepthWithinBound == \A key \in DOMAIN all_values : key[1] \in 0..max_depth

\* The call entered above max_depth records nothing and reads nothing, and
\* its caller goes on right after the span the call was given.
SkippedAndResumed ==
    LET caller == stack[Len(stack) - 1]
    IN  /\ Len(stack) >= 2
        /\ all_values' = all_values
        /\ pc' = "extract"
        /\ stack' = [SubSeq(stack, 1, Len(stack) - 2) \o <<caller>>
                        EXCEPT ![Len(stack) - 1].pos = caller.pos + Len(Top.buf),
                               ![Len(stack) - 1].length = 0]
        /\ py_slice(caller.buf, caller.pos, caller.pos + Len(Top.buf)) = Top.buf

\* C28: no value is ever recorded under a depth greater than max_depth; a
\* span nested deeper than max_depth is skipped unparsed, and the enclosing
\* level goes on with the field that follows that span.
C28_DepthBound ==
    [][DepthWithinBound' /\ (Takes("depth") => SkippedAndResumed)]_vars

\* A field under max_depth + 1 levels is not recorded, and the field after
\* its span is recorded at max_depth, as at every level above.
C28_Witness ==
    /\ pc = "assemble"
    /\ last.op = "end"
    /\ data = Nest(<<16, 172, 2>>, WithSiblings, max_depth + 1)
    /\ DOMAIN all_values =
           {<<d, "int", Big(f)>> : d \in 0..max_depth, f \in {2, 3}}
    /\ \A d \in 0..max_depth :
           /\ all_values[<<d, "int", Big(3)>>] = <<Big(300)>>
           /\ all_values[<<d, "int", Big(2)>>] = <<Big(1)>>

RECURSIVE Remaining(_)
\* The bytes the calls on the stack have still to pass, each call counted
\* as one more: the bytes after the cursor, less the span a nested call is
\* working on.
Remaining(stk) ==
    IF stk = <<>> THEN 0
    ELSE LET f == stk[1]
             left == Len(f.buf) - f.pos - f.length
         IN  1 + (IF left > 0 THEN left ELSE 0) + Remaining(Tail(stk))

\* The call i of the stack has depth i - 1, and none is deeper than
\* max_depth + 1.
NestingBounded ==
    /\ Len(stack) <= max_depth + 2
    /\ \A i \in 1..Len(stack) : stack[i].depth = i - 1

\* What one step of parse_recursive does to the cursors: an iteration that
\* stays in its call moves the cursor on; a nested call is given a span
\* shorter than the buffer of its caller, which has moved past the tag and
\* the length; a return leaves the caller further on.
CursorAdvances ==
    LET n == Len(stack)
        m == Len(stack')
    IN  /\ m = n => stack'[n].pos > stack[n].pos
        /\ m = n + 1 =>
               /\ stack'[n].pos >= stack[n].pos + 2
               /\ Len(stack'[m].buf) < Len(stack[n].buf)
               /\ Len(stack'[m].buf) = stack'[n].length
               /\ stack'[m].pos = 0
        /\ m = n - 1 /\ m > 0 => stack'[m].pos >= stack[m].pos
        /\ m \in {n - 1, n, n + 1}
        /\ \A i \in 1..m : i < n => stack'[i].buf = stack[i].buf

\* C29: the collection ends on every buffer: each iteration of the loop
\* moves the cursor on by at least one byte, each nested call works on a
\* span shorter than the buffer of its caller, no call is nested deeper
\* than max_depth + 1, and so the bytes still to pass, len(data) + 1 at the
\* start, go down with every step until no call is left.
C29_CollectionTerminates ==
    [][pc = "extract" =>
          /\ CursorAdvances
          /\ NestingBounded'
          /\ Remaining(stack') < Remaining(stack)
          /\ Remaining(stack) <= Len(data) + 1
          /\ (stack' = <<>>) = (pc' # "extract")]_vars

\* The walk of a field under max_depth + 1 levels has ended.
C29_Witness ==
    /\ pc = "assemble"
    /\ stack = <<>>
    /\ last.op = "end"
    /\ data = Nest(<<16, 172, 2>>, Alone, max_depth + 1)
    /\ all_values = <<>>

\* The deepest nesting there is: the call at depth max_depth + 1.
DeepestCall == Len(stack) = max_depth + 2 => Top.depth = max_depth + 1

\* What the script returned for the bytes decode was given.
Script == geojson[1].result
ScriptFeatures == Script.val[1].features
OptionalFields == {"heading", "velocity_x", "velocity_y", "spray_rate"}

\* The point j of the decoder and the feature of point j of the script:
\* the same index, coordinates and optional fields.
SamePoint(j) ==
    LET p == Points[j]
        f == ScriptFeatures[j + 1]
        q == f.properties
    IN  /\ f.geometry.type = "Point"
        /\ f.geometry.coordinates = <<p.longitude, p.latitude>>
        /\ q["index"] = p.index
        /\ q["index"] = j - 1
        /\ q["latitude"] = p.latitude
        /\ q["longitude"] = p.longitude
        /\ \A field \in OptionalFields :
               /\ (field \in DOMAIN q) = (to_dict(p)[field] # None)
               /\ field \in DOMAIN q => Some(q[field]) = to_dict(p)[field]

\* The raw indices the script accepts, by its own test.
ScriptAccepted == {i \in 0..(PairCount - 1) : valid_pair(RawLat[i + 1], RawLon[i + 1])}

\* C30: on every buffer that gives at least one point under the default
\* bounding box, decode and create_geojson_with_metadata accept the same
\* raw indices and give the same sequence of (latitude, longitude) pairs
\* with the same numbering from 0, and each of heading, velocity_x,
\* velocity_y and spray_rate is set for a point in one exactly when it is
\* set for it in the other.
C30_PairingCompatible ==
    (Returned /\ geojson # <<>> /\ Points # <<>> /\ Script.ok) =>
        /\ Script.val # None
        /\ Len(ScriptFeatures) = Len(Points) + 1
        /\ ScriptAccepted = Accepted
        /\ Cardinality(ScriptAccepted) = Len(Points)
        /\ \A j \in 1..Len(Points) :
               /\ SamePoint(j)
               /\ Points[j].latitude = RawLat[Origin(j - 1) + 1]
               /\ Points[j].longitude = RawLon[Origin(j - 1) + 1]
        /\ ScriptFeatures[1].geometry.coordinates =
               [j \in 1..Len(Points) |-> <<Points[j].longitude, Points[j].latitude>>]

\* Three records, the second outside the box, the third with coordinates
\* only: two points, the first with every optional field.
C30_Witness ==
    /\ Returned
    /\ geojson # <<>>
    /\ geojson[1].record = FullMetadata
    /\ data = FlightMessage(<<RecordFull, RecordAbroad, RecordBare>>)
    /\ Script.ok
    /\ Len(ScriptFeatures) = 3
    /\ Len(Points) = 2
    /\ OptionalFields \subseteq DOMAIN ScriptFeatures[2].properties
    /\ OptionalFields \cap DOMAIN ScriptFeatures[3].properties = {}

\* Without a point decode returns an empty FlightData and the script None.
NoPointsNoCollection ==
    (Returned /\ geojson # <<>> /\ Points = <<>>) => Script = Ok(None)

\* The script raises on a start in milliseconds and on an area of None when
\* there are points.
ScriptRaises ==
    (Returned /\ geojson # <<>> /\ Points # <<>>) =>
        (Script.ok = (geojson[1].record \in {BareMetadata, FullMetadata}))
====
